---------------------------- MODULE Spec2Model ----------------------------
(***************************************************************************)
(* A model of the lox-ts tree-walking interpreter: the driver (Lox), the   *)
(* static resolver (Resolver) and the evaluator (Interpreter, LoxFunction, *)
(* LoxClass, LoxInstance, natives).                                        *)
(*                                                                         *)
(* Programs are abstract syntax trees, the output of Parser.parse.  Every  *)
(* Variable, Assign, This and Super node carries an `id`, standing for the *)
(* object identity that keys Interpreter.locals.  Tokens are reduced to    *)
(* their lexeme.  Numbers are integers (the programs of the catalog stay   *)
(* inside the integers, where doubles are exact).                          *)
(*                                                                         *)
(* The evaluator is a small-step machine: `ctrl` is what the visitor is    *)
(* doing, `kont` is the JavaScript call stack of the visitors that wait    *)
(* for a sub-evaluation (each frame holds the locals of that call).  A     *)
(* thrown value travels in ctrl (m = "throw") and is handled by the frames *)
(* whose code has a try (executeBlock, visitWhileStmt, LoxFunction.call,   *)
(* Interpreter.interpret).                                                 *)
(***************************************************************************)
EXTENDS Integers, Sequences, FiniteSets, TLC

VARIABLES
    pc,              \* position of the driver: main / Lox.file / Lox.repl / Lox.run
    runKind,         \* who called Lox.run: "file", "repl", "load"; "usage"; "none" before
    hadError,        \* Lox.hadError
    hadRuntimeError, \* Lox.hadRuntimeError
    exitCode,        \* process exit status, -1 while the process runs
    src,             \* index in Catalog of the source being run (0: none)
    statements,      \* the statement list Lox.run holds
    turns,           \* number of prompts answered in REPL mode
    reports,         \* messages printed by Lox.report
    warnings,        \* lexemes printed by Lox.warn
    console,         \* lines printed by the lexer
    lexer,           \* the Lexer of Lox.run (None: none yet)
    parser,          \* the Parser of Lox.run (None: none yet)
    diagnostics,     \* messages printed by Lox.runtimeError
    output,          \* lines printed by echo (and by the REPL's expression display)
    repl,            \* Interpreter.options.repl
    locals,          \* Interpreter.locals: expression id -> depth
    environment,     \* Interpreter.environment: an index of envs
    envs,            \* heap of Environment objects
    functions,       \* heap of LoxFunction objects
    classes,         \* heap of LoxClass objects
    instances,       \* heap of LoxInstance objects
    ip,              \* Interpreter.interpret: index of the statement of the for loop
    ctrl,            \* evaluator control
    kont             \* evaluator stack

driverVars == <<pc, runKind, hadError, hadRuntimeError, exitCode, src, statements,
                turns, reports, warnings, console, lexer, parser>>
heapVars   == <<envs, functions, classes, instances>>
vars == <<driverVars, heapVars, diagnostics, output, repl, locals, environment,
          ip, ctrl, kont>>

-----------------------------------------------------------------------------
(* Runtime values (LoxObject).                                             *)

Nil          == [t |-> "nil"]
Bool(b)      == [t |-> "bool", b |-> b]
Num(n)       == [t |-> "num", n |-> n]
Str(s)       == [t |-> "str", s |-> s]
FnVal(r)     == [t |-> "fn", ref |-> r]
ClassVal(r)  == [t |-> "class", ref |-> r]
InstVal(r)   == [t |-> "instance", ref |-> r]
NativeVal(n) == [t |-> "native", native |-> n]

IsCallable(v) == v.t \in {"fn", "class", "native"}

\* only false and nil are falsey values in Lox
isTruthy(object) ==
    IF object.t = "nil" THEN FALSE
    ELSE IF object.t = "bool" THEN object.b
    ELSE TRUE

isEqual(x, y) ==
    IF x.t = "nil" /\ y.t = "nil" THEN TRUE
    ELSE IF x.t = "nil" THEN FALSE
    ELSE x.t = y.t /\ x = y

-----------------------------------------------------------------------------
(* Thrown values.                                                          *)

RuntimeError(message) == [k |-> "RuntimeError", message |-> message]
Break(message)        == [k |-> "Break", message |-> message]
Return(value)         == [k |-> "Return", value |-> value]
HostError(message)    == [k |-> "HostError", message |-> message]

-----------------------------------------------------------------------------
(* Abstract syntax (the classes of frontend/expr.ts and frontend/stmt.ts). *)

None == [k |-> "None"]

LiteralExpr(value)                   == [k |-> "Literal", value |-> value]
GroupingExpr(expression)             == [k |-> "Grouping", expression |-> expression]
UnaryExpr(operator, right)           == [k |-> "Unary", operator |-> operator, right |-> right]
BinaryExpr(left, operator, right)    ==
    [k |-> "Binary", left |-> left, operator |-> operator, right |-> right]
LogicalExpr(left, operator, right)   ==
    [k |-> "Logical", left |-> left, operator |-> operator, right |-> right]
ConditionalExpr(condition, thenBranch, elseBranch) ==
    [k |-> "Conditional", condition |-> condition, thenBranch |-> thenBranch,
     elseBranch |-> elseBranch]
VariableExpr(id, name)               == [k |-> "Variable", id |-> id, name |-> name]
AssignExpr(id, name, value)          == [k |-> "Assign", id |-> id, name |-> name, value |-> value]
CallExpr(callee, args)               == [k |-> "Call", callee |-> callee, args |-> args]
GetExpr(object, name)                == [k |-> "Get", object |-> object, name |-> name]
SetExpr(object, name, value)         ==
    [k |-> "Set", object |-> object, name |-> name, value |-> value]
ThisExpr(id)                         == [k |-> "This", id |-> id]
SuperExpr(id, method)                == [k |-> "Super", id |-> id, method |-> method]
FunctionExpr(params, body)           == [k |-> "Function", params |-> params, body |-> body]

ExpressionStmt(expression)           == [k |-> "ExpressionStmt", expression |-> expression]
EchoStmt(expression)                 == [k |-> "Echo", expression |-> expression]
LetStmt(name, initializer)           == [k |-> "Let", name |-> name, initializer |-> initializer]
BlockStmt(stmts)                     == [k |-> "Block", statements |-> stmts]
IfStmt(condition, thenBranch, elseBranch) ==
    [k |-> "If", condition |-> condition, thenBranch |-> thenBranch,
     elseBranch |-> elseBranch]
WhileStmt(condition, body)           == [k |-> "While", condition |-> condition, body |-> body]
BreakStmt                            == [k |-> "Break"]
ReturnStmt(value)                    == [k |-> "Return", value |-> value]
FunctionStmt(name, fn)               == [k |-> "FunctionStmt", name |-> name, fn |-> fn]
ClassStmt(name, superclass, methods) ==
    [k |-> "Class", name |-> name, superclass |-> superclass, methods |-> methods]

-----------------------------------------------------------------------------
(* Environment: a scope (name -> value) and its enclosing scope.  An       *)
(* Environment object is an index of the heap `envs`; 0 is "no enclosing". *)

EmptyMap == [n \in {} |-> Nil]
Put(map, name, value) ==
    [n \in (DOMAIN map) \cup {name} |-> IF n = name THEN value ELSE map[n]]

GlobalNatives ==
    Put(Put(Put(Put(EmptyMap, "clock", NativeVal("clock")), "len", NativeVal("len")),
            "type", NativeVal("type")), "PI", Num(3))

\* new Environment(enclosing): the new object is envs[Len(envs) + 1]
NewEnvironment(E, enclosing) == Append(E, [values |-> EmptyMap, enclosing |-> enclosing])

EnvDefine(E, e, name, value) == [E EXCEPT ![e].values = Put(@, name, value)]

\* the scope, from e outward, that holds `name` (0: none does)
RECURSIVE EnvHolder(_, _, _)
EnvHolder(E, e, name) ==
    IF e = 0 THEN 0
    ELSE IF name \in DOMAIN E[e].values THEN e
    ELSE EnvHolder(E, E[e].enclosing, name)

UndefinedVariable(name) == RuntimeError("Undefined variable '" \o name \o "'.")

EnvGet(E, e, name) ==
    LET h == EnvHolder(E, e, name)
    IN  IF h = 0 THEN [ok |-> FALSE, error |-> UndefinedVariable(name)]
        ELSE [ok |-> TRUE, value |-> E[h].values[name]]

EnvAssign(E, e, name, value) ==
    LET h == EnvHolder(E, e, name)
    IN  IF h = 0 THEN [ok |-> FALSE, error |-> UndefinedVariable(name)]
        ELSE [ok |-> TRUE, envs |-> EnvDefine(E, h, name, value)]

\* walk `enclosing` d times (0: the chain is shorter than d)
RECURSIVE Ancestor(_, _, _)
Ancestor(E, e, d) ==
    IF e = 0 \/ d = 0 THEN e ELSE Ancestor(E, E[e].enclosing, d - 1)

AncestorPanic == HostError("ancestor: no enclosing environment")

EnvGetAt(E, e, d, name) ==
    LET a == Ancestor(E, e, d)
    IN  IF a = 0 THEN [ok |-> FALSE, error |-> AncestorPanic]
        ELSE IF name \in DOMAIN E[a].values THEN [ok |-> TRUE, value |-> E[a].values[name]]
        ELSE [ok |-> FALSE, error |-> UndefinedVariable(name)]

EnvAssignAt(E, e, d, name, value) ==
    LET a == Ancestor(E, e, d)
    IN  IF a = 0 THEN [ok |-> FALSE, error |-> AncestorPanic]
        ELSE IF name \in DOMAIN E[a].values
             THEN [ok |-> TRUE, envs |-> EnvDefine(E, a, name, value)]
        ELSE [ok |-> FALSE, error |-> UndefinedVariable(name)]

\* closure.getThis(): the `this` bound in the closure of a bound method
EnvGetThis(E, e) == EnvGetAt(E, e, 0, "this")

-----------------------------------------------------------------------------
(* LoxFunction, LoxClass, LoxInstance objects.                             *)

NoName == ""

\* new LoxFunction(name, declaration, closure, isInitializer)
LoxFunction(name, declaration, closure, isInitializer) ==
    [name |-> name, declaration |-> declaration, closure |-> closure,
     isInitializer |-> isInitializer]

LoxFunctionArity(fn) == Len(fn.declaration.params)

\* new LoxClass(name, superclass, methods); superclass is a class index or 0
LoxClass(name, superclass, methods) ==
    [name |-> name, superclass |-> superclass, methods |-> methods]

\* new LoxInstance(klass)
LoxInstance(klass) == [klass |-> klass, fields |-> EmptyMap]

\* LoxClass.findMethod: the index of the function, 0 for null
RECURSIVE findMethod(_, _, _)
findMethod(C, c, name) ==
    IF name \in DOMAIN C[c].methods THEN C[c].methods[name]
    ELSE IF C[c].superclass # 0 THEN findMethod(C, C[c].superclass, name)
    ELSE 0

\* A faulty variant of LoxClassArity: only the class's own methods are searched.
LoxClassArityOwn(C, F, c) ==
    IF "init" \in DOMAIN C[c].methods
    THEN LoxFunctionArity(F[C[c].methods["init"]])
    ELSE 0

\* LoxClass.arity
LoxClassArity(C, F, c) ==
    LET initializer == findMethod(C, c, "init")
    IN  IF initializer = 0 THEN 0 ELSE LoxFunctionArity(F[initializer])

\* LoxFunction.bind(instance): a new Environment holding `this` and a new
\* LoxFunction closed over it; the new function is F[Len(F) + 1].
LoxFunctionBind(E, F, f, instance) ==
    LET environment_ == Len(E) + 1
        E1 == EnvDefine(NewEnvironment(E, F[f].closure), environment_, "this", instance)
    IN  [envs |-> E1,
         functions |-> Append(F, LoxFunction(F[f].name, F[f].declaration, environment_,
                                             F[f].isInitializer)),
         fn |-> Len(F) + 1]

\* A faulty variant of LoxFunctionCallEnv: the Environment of the call
\* encloses the caller's environment (dynamic scoping), not the closure.
LoxFunctionCallEnvDynamic(E, fn, args) ==
    LET environment_ == Len(E) + 1
        RECURSIVE bindParams(_, _)
        bindParams(EE, i) ==
            IF i > Len(fn.declaration.params) THEN EE
            ELSE bindParams(EnvDefine(EE, environment_, fn.declaration.params[i], args[i]), i + 1)
    IN  bindParams(NewEnvironment(E, environment), 1)

\* LoxFunction.call, up to the call of executeBlock: the Environment of the call
LoxFunctionCallEnv(E, fn, args) ==
    LET environment_ == Len(E) + 1
        RECURSIVE bindParams(_, _)
        bindParams(EE, i) ==
            IF i > Len(fn.declaration.params) THEN EE
            ELSE bindParams(EnvDefine(EE, environment_, fn.declaration.params[i], args[i]), i + 1)
    IN  bindParams(NewEnvironment(E, fn.closure), 1)

\* A faulty variant of LoxFunctionCallResult: isInitializer is ignored.
LoxFunctionCallResultPlain(E, fn, returned) == [ok |-> TRUE, value |-> returned]

\* LoxFunction.call, after executeBlock returned or threw Return
LoxFunctionCallResult(E, fn, returned) ==
    IF fn.isInitializer THEN EnvGetThis(E, fn.closure)
    ELSE [ok |-> TRUE, value |-> returned]

ToText(object) ==
    CASE object.t = "nil"      -> "nil"
      [] object.t = "bool"     -> IF object.b THEN "true" ELSE "false"
      [] object.t = "num"      -> ToString(object.n)
      [] object.t = "str"      -> object.s
      [] object.t = "native"   -> "<native fn>"
      [] object.t = "fn"       -> IF functions[object.ref].name = NoName THEN "<fn>"
                                  ELSE "<fn " \o functions[object.ref].name \o ">"
      [] object.t = "class"    -> classes[object.ref].name
      [] object.t = "instance" -> "'" \o classes[instances[object.ref].klass].name
                                      \o "' instance"

\* Interpreter.stringify
stringify(object) == ToText(object)

-----------------------------------------------------------------------------
(* Resolver.  Its state `rs`: scopes (a stack of Maps, each the sequence   *)
(* of its entries in insertion order), currentFunction, currentClass, the  *)
(* entries it put in Interpreter.locals, and what it printed.              *)

NewResolver(interpreterLocals) ==
    [scopes |-> <<>>, currentFunction |-> "NONE", currentClass |-> "NONE",
     locals |-> interpreterLocals, errors |-> <<>>, warnings |-> <<>>]

\* Map.has / Map.get(..).state / Map.set on a scope
ScopeHas(scope, name) == \E i \in 1..Len(scope) : scope[i].name = name
ScopeState(scope, name) == scope[CHOOSE i \in 1..Len(scope) : scope[i].name = name].state
ScopeSet(scope, name, state) ==
    IF ScopeHas(scope, name)
    THEN [i \in 1..Len(scope) |->
             IF scope[i].name = name THEN [name |-> name, state |-> state] ELSE scope[i]]
    ELSE Append(scope, [name |-> name, state |-> state])

\* Lox.error, called by the resolver
ResolverError(rs, message) == [rs EXCEPT !.errors = Append(@, message)]

SetTopScope(rs, name, state) ==
    [rs EXCEPT !.scopes[Len(rs.scopes)] = ScopeSet(@, name, state)]

beginScope(rs) == [rs EXCEPT !.scopes = Append(@, <<>>)]

\* A faulty variant of endScope: the warnings are given, the scope stays.
endScopeKeep(rs) ==
    LET scope == rs.scopes[Len(rs.scopes)]
        unused == SelectSeq(scope, LAMBDA variable : variable.state = "DEFINED")
    IN  [rs EXCEPT !.warnings = @ \o [i \in 1..Len(unused) |-> unused[i].name]]

\* Resolver.endScope
endScope(rs) ==
    LET scope == rs.scopes[Len(rs.scopes)]
        unused == SelectSeq(scope, LAMBDA variable : variable.state = "DEFINED")
    IN  [rs EXCEPT !.scopes = SubSeq(@, 1, Len(@) - 1),
                   !.warnings = @ \o [i \in 1..Len(unused) |-> unused[i].name]]

declare(rs, name) ==
    IF Len(rs.scopes) = 0 THEN rs
    ELSE LET r1 == IF ScopeHas(rs.scopes[Len(rs.scopes)], name)
                   THEN ResolverError(rs, "Variable with this name already declared in this scope.")
                   ELSE rs
         IN  SetTopScope(r1, name, "DECLARED")

define(rs, name) ==
    IF Len(rs.scopes) = 0 THEN rs ELSE SetTopScope(rs, name, "DEFINED")

\* the index of the innermost scope that has `name` (0: none)
RECURSIVE ScopeOf(_, _, _)
ScopeOf(scopes, i, name) ==
    IF i = 0 THEN 0
    ELSE IF ScopeHas(scopes[i], name) THEN i
    ELSE ScopeOf(scopes, i - 1, name)

\* A faulty variant of resolveLocal: an assignment marks the variable as used too.
resolveLocalAlwaysRead(rs, id, name, isRead) ==
    LET i == ScopeOf(rs.scopes, Len(rs.scopes), name)
    IN  IF i = 0 THEN rs
        ELSE [rs EXCEPT !.locals = Put(@, id, Len(rs.scopes) - i),
                        !.scopes[i] = ScopeSet(@, name, "READ")]

resolveLocal(rs, id, name, isRead) ==
    LET i == ScopeOf(rs.scopes, Len(rs.scopes), name)
    IN  IF i = 0 THEN rs   \* Not found. Assume it is global.
        ELSE LET r1 == [rs EXCEPT !.locals = Put(@, id, Len(rs.scopes) - i)]
             IN  IF isRead
                 THEN [r1 EXCEPT !.scopes[i] = ScopeSet(@, name, "READ")]
                 ELSE r1

RECURSIVE resolveStmt(_, _), resolveExpr(_, _), resolveAll(_, _), resolveFunction(_, _, _),
          resolveMethods(_, _)

\* resolve(node) for a list: statements, or the arguments of a call
\* (each node is resolved before the next one is looked at)
resolveAll(rs, nodes) ==
    IF Len(nodes) = 0 THEN rs
    ELSE LET r1 == IF Head(nodes).k \in {"ExpressionStmt", "Echo", "Let", "Block", "If",
                                         "While", "Break", "Return", "FunctionStmt", "Class"}
                   THEN resolveStmt(rs, Head(nodes))
                   ELSE resolveExpr(rs, Head(nodes))
         IN  IF Len(r1.errors) >= 0 THEN resolveAll(r1, Tail(nodes)) ELSE r1

\* for (const param of fn.params) { declare(param); define(param) }
RECURSIVE declareParams(_, _)
declareParams(rs, names) ==
    IF Len(names) = 0 THEN rs
    ELSE declareParams(define(declare(rs, Head(names)), Head(names)), Tail(names))

\* A faulty variant of resolveFunction: currentFunction is not restored.
resolveFunctionNoRestore(rs, fn, type) ==
    LET r1 == beginScope([rs EXCEPT !.currentFunction = type])
        r2 == resolveAll(declareParams(r1, fn.params), fn.body)
    IN  endScope(r2)

resolveFunction(rs, fn, type) ==
    LET enclosingFunction == rs.currentFunction
        r1 == beginScope([rs EXCEPT !.currentFunction = type])
        r2 == resolveAll(declareParams(r1, fn.params), fn.body)
    IN  [endScope(r2) EXCEPT !.currentFunction = enclosingFunction]

resolveMethods(rs, methods) ==
    IF Len(methods) = 0 THEN rs
    ELSE LET r1 == resolveFunction(rs, Head(methods).fn,
                       IF Head(methods).name = "init" THEN "INITIALIZER" ELSE "METHOD")
         IN  IF Len(r1.errors) >= 0 THEN resolveMethods(r1, Tail(methods)) ELSE r1

\* A faulty variant of visitClassStmtR: currentClass is not restored.
visitClassStmtRNoRestore(rs, stmt) ==
    LET r1 == define(declare([rs EXCEPT !.currentClass = "CLASS"], stmt.name), stmt.name)
        r2 == IF stmt.superclass.k # "None" /\ stmt.name = stmt.superclass.name
              THEN ResolverError(r1, "A class cannot inherit from itself.")
              ELSE r1
        r3 == IF stmt.superclass.k # "None"
              THEN resolveExpr([r2 EXCEPT !.currentClass = "SUBCLASS"], stmt.superclass)
              ELSE r2
        r4 == IF stmt.superclass.k # "None"
              THEN SetTopScope(beginScope(r3), "super", "READ")
              ELSE r3
        r5 == SetTopScope(beginScope(r4), "this", "READ")
        r6 == endScope(resolveMethods(r5, stmt.methods))
    IN  IF stmt.superclass.k # "None" THEN endScope(r6) ELSE r6

visitClassStmtR(rs, stmt) ==
    LET enclosingClass == rs.currentClass
        r1 == define(declare([rs EXCEPT !.currentClass = "CLASS"], stmt.name), stmt.name)
        r2 == IF stmt.superclass.k # "None" /\ stmt.name = stmt.superclass.name
              THEN ResolverError(r1, "A class cannot inherit from itself.")
              ELSE r1
        r3 == IF stmt.superclass.k # "None"
              THEN resolveExpr([r2 EXCEPT !.currentClass = "SUBCLASS"], stmt.superclass)
              ELSE r2
        r4 == IF stmt.superclass.k # "None"
              THEN SetTopScope(beginScope(r3), "super", "READ")
              ELSE r3
        r5 == SetTopScope(beginScope(r4), "this", "READ")
        r6 == endScope(resolveMethods(r5, stmt.methods))
        r7 == IF stmt.superclass.k # "None" THEN endScope(r6) ELSE r6
    IN  [r7 EXCEPT !.currentClass = enclosingClass]

visitReturnStmtR(rs, stmt) ==
    LET r1 == IF rs.currentFunction = "NONE"
              THEN ResolverError(rs, "Cannot return from top-level code.")
              ELSE rs
    IN  IF stmt.value.k # "None"
        THEN resolveExpr(IF r1.currentFunction = "INITIALIZER"
                         THEN ResolverError(r1, "Cannot return a value from an initializer.")
                         ELSE r1,
                         stmt.value)
        ELSE r1

visitLetStmtR(rs, stmt) ==
    LET r1 == declare(rs, stmt.name)
        r2 == IF stmt.initializer.k # "None" THEN resolveExpr(r1, stmt.initializer) ELSE r1
    IN  define(r2, stmt.name)

visitVariableExprR(rs, expr) ==
    LET r1 == IF /\ Len(rs.scopes) # 0
                 /\ ScopeHas(rs.scopes[Len(rs.scopes)], expr.name)
                 /\ ScopeState(rs.scopes[Len(rs.scopes)], expr.name) = "DECLARED"
              THEN ResolverError(rs, "Cannot read local variable in its own initializer.")
              ELSE rs
    IN  resolveLocal(r1, expr.id, expr.name, TRUE)

visitSuperExprR(rs, expr) ==
    LET r1 == IF rs.currentClass = "NONE"
              THEN ResolverError(rs, "Cannot use 'super' outside of a class.")
              ELSE IF rs.currentClass # "SUBCLASS"
              THEN ResolverError(rs, "Cannot use 'super' in a class with no superclas.")
              ELSE rs
    IN  resolveLocal(r1, expr.id, "super", TRUE)

visitThisExprR(rs, expr) ==
    LET r1 == IF rs.currentClass = "NONE"
              THEN ResolverError(rs, "Cannot use 'this' outside of a class.")
              ELSE rs
    IN  resolveLocal(r1, expr.id, "this", TRUE)

resolveStmt(rs, stmt) ==
    CASE stmt.k = "Block"          -> endScope(resolveAll(beginScope(rs), stmt.statements))
      [] stmt.k = "Class"          -> visitClassStmtR(rs, stmt)
      [] stmt.k = "Echo"           -> resolveExpr(rs, stmt.expression)
      [] stmt.k = "ExpressionStmt" -> resolveExpr(rs, stmt.expression)
      [] stmt.k = "FunctionStmt"   ->
            resolveFunction(define(declare(rs, stmt.name), stmt.name), stmt.fn, "FUNCTION")
      [] stmt.k = "If"             ->
            LET r1 == resolveStmt(resolveExpr(rs, stmt.condition), stmt.thenBranch)
            IN  IF stmt.elseBranch.k # "None" THEN resolveStmt(r1, stmt.elseBranch) ELSE r1
      [] stmt.k = "Let"            -> visitLetStmtR(rs, stmt)
      [] stmt.k = "Break"          -> rs
      [] stmt.k = "Return"         -> visitReturnStmtR(rs, stmt)
      [] stmt.k = "While"          -> resolveStmt(resolveExpr(rs, stmt.condition), stmt.body)

resolveExpr(rs, expr) ==
    CASE expr.k = "Assign"      ->
            resolveLocal(resolveExpr(rs, expr.value), expr.id, expr.name, FALSE)
      [] expr.k = "Binary"      -> resolveExpr(resolveExpr(rs, expr.left), expr.right)
      [] expr.k = "Call"        -> resolveAll(resolveExpr(rs, expr.callee), expr.args)
      [] expr.k = "Get"         -> resolveExpr(rs, expr.object)
      [] expr.k = "Grouping"    -> resolveExpr(rs, expr.expression)
      [] expr.k = "Literal"     -> rs
      [] expr.k = "Logical"     -> resolveExpr(resolveExpr(rs, expr.left), expr.right)
      [] expr.k = "Set"         -> resolveExpr(resolveExpr(rs, expr.value), expr.object)
      [] expr.k = "Super"       -> visitSuperExprR(rs, expr)
      [] expr.k = "This"        -> visitThisExprR(rs, expr)
      [] expr.k = "Unary"       -> resolveExpr(rs, expr.right)
      [] expr.k = "Function"    -> resolveFunction(rs, expr, "FUNCTION")
      [] expr.k = "Conditional" ->
            resolveExpr(resolveExpr(resolveExpr(rs, expr.condition), expr.thenBranch),
                        expr.elseBranch)
      [] expr.k = "Variable"    -> visitVariableExprR(rs, expr)

\* Resolver.resolve(statements), on a new Resolver(interpreter)
resolve(interpreterLocals, stmts) == resolveAll(NewResolver(interpreterLocals), stmts)

-----------------------------------------------------------------------------
(* Interpreter: control and stack.                                         *)

globals == 1

Exec(stmt)   == [m |-> "exec", node |-> stmt]    \* execute(stmt) is called
Eval(expr)   == [m |-> "eval", node |-> expr]    \* evaluate(expr) is called
Value(v)     == [m |-> "value", v |-> v]         \* evaluate returned v
Normal       == [m |-> "normal"]                 \* execute returned
Invoke       == [m |-> "invoke"]                 \* visitCallExpr has callee and arguments
Throw(error) == [m |-> "throw", error |-> error] \* a value was thrown
Idle         == [m |-> "idle"]                   \* Interpreter.interpret is not running

Running == pc = "interpret"
Top     == kont[Len(kont)]
Rest    == SubSeq(kont, 1, Len(kont) - 1)
SetTop(frame) == [kont EXCEPT ![Len(kont)] = frame]

AtStmt(kind)   == Running /\ ctrl.m = "exec" /\ ctrl.node.k = kind
AtExpr(kind)   == Running /\ ctrl.m = "eval" /\ ctrl.node.k = kind
Resume(f)      == Running /\ ctrl.m = "value" /\ Len(kont) > 0 /\ Top.f = f
Returned(f)    == Running /\ ctrl.m = "normal" /\ Len(kont) > 0 /\ Top.f = f
Thrown(f)      == Running /\ ctrl.m = "throw" /\ Len(kont) > 0 /\ Top.f = f

\* what an evaluator step leaves alone
Ctl(c, k) == ctrl' = c /\ kont' = k /\ UNCHANGED <<driverVars, diagnostics, repl, locals, ip>>
Pure      == UNCHANGED <<heapVars, environment, output>>

\* an operation that returns [ok, value] or [ok, error]
Outcome(r) == IF r.ok THEN Value(r.value) ELSE Throw(r.error)

-----------------------------------------------------------------------------
(* Interpreter: statements.                                                *)

\* executeBlock(statements, environment): its frame, once `previous` is saved
executeBlockFrame(stmts, env) ==
    [f |-> "executeBlock", statements |-> stmts, environment |-> env,
     previous |-> environment, i |-> 0]

visitBlockStmt ==
    /\ AtStmt("Block")
    /\ envs' = NewEnvironment(envs, environment)
    /\ environment' = Len(envs) + 1
    /\ Ctl(Normal, Append(kont, executeBlockFrame(ctrl.node.statements, Len(envs) + 1)))
    /\ UNCHANGED <<functions, classes, instances, output>>

\* the for loop of executeBlock executes its next statement
executeBlock_next ==
    /\ Returned("executeBlock")
    /\ Top.i < Len(Top.statements)
    /\ Ctl(Exec(Top.statements[Top.i + 1]), SetTop([Top EXCEPT !.i = @ + 1]))
    /\ Pure

\* the for loop is over: finally { this.environment = previous }
executeBlock_return ==
    /\ Returned("executeBlock")
    /\ Top.i = Len(Top.statements)
    /\ environment' = Top.previous
    /\ Ctl(Normal, Rest)
    /\ UNCHANGED <<heapVars, output>>

\* A faulty variant of executeBlock_unwind: no `finally`, the environment of
\* the block stays current while the thrown value goes on.
executeBlock_unwind_leak ==
    /\ Thrown("executeBlock")
    /\ Ctl(ctrl, Rest)
    /\ UNCHANGED <<heapVars, environment, output>>

\* a statement threw: finally { this.environment = previous }, and it goes on
executeBlock_unwind ==
    /\ Thrown("executeBlock")
    /\ environment' = Top.previous
    /\ Ctl(ctrl, Rest)
    /\ UNCHANGED <<heapVars, output>>

visitExpressionStmt ==
    /\ AtStmt("ExpressionStmt")
    /\ Ctl(Eval(ctrl.node.expression), Append(kont, [f |-> "ExpressionStmt"]))
    /\ Pure

visitExpressionStmt_value ==
    /\ Resume("ExpressionStmt")
    /\ output' = IF repl THEN Append(output, stringify(ctrl.v)) ELSE output
    /\ Ctl(Normal, Rest)
    /\ UNCHANGED <<heapVars, environment>>

visitEchoStmt ==
    /\ AtStmt("Echo")
    /\ Ctl(Eval(ctrl.node.expression), Append(kont, [f |-> "Echo"]))
    /\ Pure

visitEchoStmt_value ==
    /\ Resume("Echo")
    /\ output' = Append(output, stringify(ctrl.v))
    /\ Ctl(Normal, Rest)
    /\ UNCHANGED <<heapVars, environment>>

visitLetStmt ==
    /\ AtStmt("Let")
    /\ IF ctrl.node.initializer.k # "None"
       THEN /\ Ctl(Eval(ctrl.node.initializer), Append(kont, [f |-> "Let", name |-> ctrl.node.name]))
            /\ Pure
       ELSE /\ envs' = EnvDefine(envs, environment, ctrl.node.name, Nil)
            /\ Ctl(Normal, kont)
            /\ UNCHANGED <<functions, classes, instances, environment, output>>

visitLetStmt_value ==
    /\ Resume("Let")
    /\ envs' = EnvDefine(envs, environment, Top.name, ctrl.v)
    /\ Ctl(Normal, Rest)
    /\ UNCHANGED <<functions, classes, instances, environment, output>>

visitIfStmt ==
    /\ AtStmt("If")
    /\ Ctl(Eval(ctrl.node.condition), Append(kont, [f |-> "If", stmt |-> ctrl.node]))
    /\ Pure

visitIfStmt_value ==
    /\ Resume("If")
    /\ Ctl(IF isTruthy(ctrl.v) THEN Exec(Top.stmt.thenBranch)
           ELSE IF Top.stmt.elseBranch.k # "None" THEN Exec(Top.stmt.elseBranch)
           ELSE Normal,
           Rest)
    /\ Pure

visitWhileStmt ==
    /\ AtStmt("While")
    /\ Ctl(Eval(ctrl.node.condition),
           Append(kont, [f |-> "While", stmt |-> ctrl.node, phase |-> "condition"]))
    /\ Pure

\* while (this.isTruthy(this.evaluate(stmt.condition)))
visitWhileStmt_condition ==
    /\ Resume("While")
    /\ IF isTruthy(ctrl.v)
       THEN Ctl(Exec(Top.stmt.body), SetTop([Top EXCEPT !.phase = "body"]))
       ELSE Ctl(Normal, Rest)
    /\ Pure

\* the body returned: the condition is evaluated again
visitWhileStmt_body ==
    /\ Returned("While")
    /\ Ctl(Eval(Top.stmt.condition), SetTop([Top EXCEPT !.phase = "condition"]))
    /\ Pure

\* A faulty variant of visitWhileStmt_catch: the Break ends the iteration,
\* not the loop (the condition is evaluated again).
visitWhileStmt_catch_continue ==
    /\ Thrown("While")
    /\ Top.phase = "body" /\ ctrl.error.k = "Break"
    /\ Ctl(Eval(Top.stmt.condition), SetTop([Top EXCEPT !.phase = "condition"]))
    /\ Pure

\* A faulty variant of WhileCatches: the catch of the loop swallows every
\* thrown value, a Return included.
WhileCatchesAll == Top.f = "While" /\ Top.phase = "body"

\* catch (err) { if (err instanceof Break) break }, around the body only
WhileCatches == Top.f = "While" /\ Top.phase = "body" /\ ctrl.error.k = "Break"

visitWhileStmt_catch ==
    /\ Thrown("While")
    /\ WhileCatches
    /\ Ctl(Normal, Rest)
    /\ Pure

visitBreakStmt ==
    /\ AtStmt("Break")
    /\ Ctl(Throw(Break("Break statement used outside of loop.")), kont)
    /\ Pure

visitReturnStmt ==
    /\ AtStmt("Return")
    /\ IF ctrl.node.value.k # "None"
       THEN Ctl(Eval(ctrl.node.value), Append(kont, [f |-> "Return"]))
       ELSE Ctl(Throw(Return(Nil)), kont)
    /\ Pure

visitReturnStmt_value ==
    /\ Resume("Return")
    /\ Ctl(Throw(Return(ctrl.v)), Rest)
    /\ Pure

visitFunctionStmt ==
    /\ AtStmt("FunctionStmt")
    /\ functions' = Append(functions,
                           LoxFunction(ctrl.node.name, ctrl.node.fn, environment, FALSE))
    /\ envs' = EnvDefine(envs, environment, ctrl.node.name, FnVal(Len(functions) + 1))
    /\ Ctl(Normal, kont)
    /\ UNCHANGED <<classes, instances, environment, output>>

\* visitClassStmt after the superclass is known (a class index, 0 for null):
\* the heaps and the environment pointer it leaves
ClassMethods(F, stmt, closure) ==
    [i \in 1..Len(stmt.methods) |->
        LoxFunction(stmt.methods[i].name, stmt.methods[i].fn, closure,
                    stmt.methods[i].name = "init")]

ClassMethodMap(F, stmt) ==
    [name \in {stmt.methods[i].name : i \in 1..Len(stmt.methods)} |->
        Len(F) + (CHOOSE i \in 1..Len(stmt.methods) :
                     /\ stmt.methods[i].name = name
                     /\ \A j \in (i + 1)..Len(stmt.methods) : stmt.methods[j].name # name)]

\* A faulty variant of visitClassStmtBody: a superclass is kept by name, so
\* declaring the class again rewires the classes that inherit from that name.
visitClassStmtBodyByName(E, F, C, env, stmt, superclass) ==
    LET E1   == EnvDefine(E, env, stmt.name, Nil)
        env2 == IF stmt.superclass.k # "None" THEN Len(E1) + 1 ELSE env
        E2   == IF stmt.superclass.k # "None"
                THEN EnvDefine(NewEnvironment(E1, env), env2, "super", ClassVal(superclass))
                ELSE E1
        env3 == IF superclass # 0 THEN E2[env2].enclosing ELSE env2
        done == EnvAssign(E2, env3, stmt.name, ClassVal(Len(C) + 1))
        kept == [c \in DOMAIN C |->
                    IF C[c].superclass # 0 /\ C[C[c].superclass].name = stmt.name
                    THEN [C[c] EXCEPT !.superclass = Len(C) + 1]
                    ELSE C[c]]
    IN  [envs        |-> IF done.ok THEN done.envs ELSE E2,
         functions   |-> F \o ClassMethods(F, stmt, env2),
         classes     |-> Append(kept, LoxClass(stmt.name, superclass, ClassMethodMap(F, stmt))),
         environment |-> env3,
         ctrl        |-> IF done.ok THEN Normal ELSE Throw(done.error)]

\* visitClassStmt, once the superclass is known to be a class or absent
visitClassStmtBody(E, F, C, env, stmt, superclass) ==
    LET E1   == EnvDefine(E, env, stmt.name, Nil)
        env2 == IF stmt.superclass.k # "None" THEN Len(E1) + 1 ELSE env
        E2   == IF stmt.superclass.k # "None"
                THEN EnvDefine(NewEnvironment(E1, env), env2, "super", ClassVal(superclass))
                ELSE E1
        env3 == IF superclass # 0 THEN E2[env2].enclosing ELSE env2
        done == EnvAssign(E2, env3, stmt.name, ClassVal(Len(C) + 1))
    IN  [envs        |-> IF done.ok THEN done.envs ELSE E2,
         functions   |-> F \o ClassMethods(F, stmt, env2),
         classes     |-> Append(C, LoxClass(stmt.name, superclass, ClassMethodMap(F, stmt))),
         environment |-> env3,
         ctrl        |-> IF done.ok THEN Normal ELSE Throw(done.error)]

visitClassStmt ==
    /\ AtStmt("Class")
    /\ IF ctrl.node.superclass.k # "None"
       THEN /\ Ctl(Eval(ctrl.node.superclass), Append(kont, [f |-> "Class", stmt |-> ctrl.node]))
            /\ Pure
       ELSE LET r == visitClassStmtBody(envs, functions, classes, environment, ctrl.node, 0)
            IN  /\ envs' = r.envs /\ functions' = r.functions /\ classes' = r.classes
                /\ environment' = r.environment
                /\ Ctl(r.ctrl, kont)
                /\ UNCHANGED <<instances, output>>

\* A faulty variant of visitClassStmt_superclass: the class name is defined
\* before the superclass is checked.
visitClassStmt_superclass_defineFirst ==
    /\ Resume("Class")
    /\ IF ctrl.v.t # "class"
       THEN /\ Ctl(Throw(RuntimeError("Superclass must be a class.")), Rest)
            /\ envs' = EnvDefine(envs, environment, Top.stmt.name, Nil)
            /\ UNCHANGED <<functions, classes, instances, environment, output>>
       ELSE LET r == visitClassStmtBody(envs, functions, classes, environment, Top.stmt,
                                        ctrl.v.ref)
            IN  /\ envs' = r.envs /\ functions' = r.functions /\ classes' = r.classes
                /\ environment' = r.environment
                /\ Ctl(r.ctrl, Rest)
                /\ UNCHANGED <<instances, output>>

visitClassStmt_superclass ==
    /\ Resume("Class")
    /\ IF ctrl.v.t # "class"
       THEN /\ Ctl(Throw(RuntimeError("Superclass must be a class.")), Rest)
            /\ Pure
       ELSE LET r == visitClassStmtBody(envs, functions, classes, environment, Top.stmt,
                                        ctrl.v.ref)
            IN  /\ envs' = r.envs /\ functions' = r.functions /\ classes' = r.classes
                /\ environment' = r.environment
                /\ Ctl(r.ctrl, Rest)
                /\ UNCHANGED <<instances, output>>

-----------------------------------------------------------------------------
(* Interpreter: expressions.                                               *)

\* A faulty variant of lookUpVariable: the name is looked up along the
\* chain of the current environment, whatever the resolver found.
lookUpVariableDynamic(E, env, L, name, id) == EnvGet(E, env, name)

\* lookUpVariable(name, expr)
lookUpVariable(E, env, L, name, id) ==
    IF id \notin DOMAIN L THEN EnvGet(E, globals, name)
    ELSE EnvGetAt(E, env, L[id], name)

visitLiteralExpr ==
    /\ AtExpr("Literal")
    /\ Ctl(Value(ctrl.node.value), kont)
    /\ Pure

visitGroupingExpr ==
    /\ AtExpr("Grouping")
    /\ Ctl(Eval(ctrl.node.expression), kont)
    /\ Pure

visitVariableExpr ==
    /\ AtExpr("Variable")
    /\ Ctl(Outcome(lookUpVariable(envs, environment, locals, ctrl.node.name, ctrl.node.id)), kont)
    /\ Pure

visitThisExpr ==
    /\ AtExpr("This")
    /\ Ctl(Outcome(lookUpVariable(envs, environment, locals, "this", ctrl.node.id)), kont)
    /\ Pure

visitFunctionExpr ==
    /\ AtExpr("Function")
    /\ functions' = Append(functions, LoxFunction(NoName, ctrl.node, environment, FALSE))
    /\ Ctl(Value(FnVal(Len(functions) + 1)), kont)
    /\ UNCHANGED <<envs, classes, instances, environment, output>>

visitAssignExpr ==
    /\ AtExpr("Assign")
    /\ Ctl(Eval(ctrl.node.value), Append(kont, [f |-> "Assign", expr |-> ctrl.node]))
    /\ Pure

\* visitAssignExpr once the value is known
AssignVariable(E, env, L, expr, value) ==
    IF expr.id \in DOMAIN L THEN EnvAssignAt(E, env, L[expr.id], expr.name, value)
    ELSE EnvAssign(E, globals, expr.name, value)

visitAssignExpr_value ==
    /\ Resume("Assign")
    /\ LET r == AssignVariable(envs, environment, locals, Top.expr, ctrl.v)
       IN  /\ envs' = IF r.ok THEN r.envs ELSE envs
           /\ Ctl(IF r.ok THEN Value(ctrl.v) ELSE Throw(r.error), Rest)
    /\ UNCHANGED <<functions, classes, instances, environment, output>>

visitUnaryExpr ==
    /\ AtExpr("Unary")
    /\ Ctl(Eval(ctrl.node.right), Append(kont, [f |-> "Unary", operator |-> ctrl.node.operator]))
    /\ Pure

UnaryResult(operator, right) ==
    CASE operator = "!" -> [ok |-> TRUE, value |-> Bool(~isTruthy(right))]
      [] operator = "-" ->
            IF right.t = "num" THEN [ok |-> TRUE, value |-> Num(0 - right.n)]
            ELSE [ok |-> FALSE, error |-> RuntimeError("Operand must be a number.")]

visitUnaryExpr_value ==
    /\ Resume("Unary")
    /\ Ctl(Outcome(UnaryResult(Top.operator, ctrl.v)), Rest)
    /\ Pure

visitBinaryExpr ==
    /\ AtExpr("Binary")
    /\ Ctl(Eval(ctrl.node.left), Append(kont, [f |-> "Binary", expr |-> ctrl.node, phase |-> "left"]))
    /\ Pure

visitBinaryExpr_left ==
    /\ Resume("Binary")
    /\ Top.phase = "left"
    /\ Ctl(Eval(Top.expr.right), SetTop([f |-> "Binary", expr |-> Top.expr, phase |-> "right",
                                         left |-> ctrl.v]))
    /\ Pure

\* checkNumberOperands
checkNumberOperands(left, right) == left.t = "num" /\ right.t = "num"

Arithmetic(operator, l, r) ==
    CASE operator = ">"  -> Bool(l > r)
      [] operator = ">=" -> Bool(l >= r)
      [] operator = "<"  -> Bool(l < r)
      [] operator = "<=" -> Bool(l <= r)
      [] operator = "-"  -> Num(l - r)
      [] operator = "*"  -> Num(l * r)
      [] operator = "/"  -> Num(l \div r)

\* the switch of visitBinaryExpr
BinaryResult(operator, left, right) ==
    CASE operator = "!=" -> [ok |-> TRUE, value |-> Bool(~isEqual(left, right))]
      [] operator = "==" -> [ok |-> TRUE, value |-> Bool(isEqual(left, right))]
      [] operator = "+"  ->
            IF left.t = "num" /\ right.t = "num" THEN [ok |-> TRUE, value |-> Num(left.n + right.n)]
            ELSE IF left.t = "str" \/ right.t = "str"
            THEN [ok |-> TRUE, value |-> Str(stringify(left) \o stringify(right))]
            ELSE [ok |-> FALSE,
                  error |-> RuntimeError("Operands must be two numbers or two strings")]
      [] operator \in {">", ">=", "<", "<=", "-", "*", "/"} ->
            IF ~checkNumberOperands(left, right)
            THEN [ok |-> FALSE, error |-> RuntimeError("Operands must be numbers.")]
            ELSE IF operator = "/" /\ right.n = 0
            THEN [ok |-> FALSE, error |-> RuntimeError("Division by zero is not allowed.")]
            ELSE [ok |-> TRUE, value |-> Arithmetic(operator, left.n, right.n)]

visitBinaryExpr_right ==
    /\ Resume("Binary")
    /\ Top.phase = "right"
    /\ Ctl(Outcome(BinaryResult(Top.expr.operator, Top.left, ctrl.v)), Rest)
    /\ Pure

visitLogicalExpr ==
    /\ AtExpr("Logical")
    /\ Ctl(Eval(ctrl.node.left), Append(kont, [f |-> "Logical", expr |-> ctrl.node]))
    /\ Pure

\* A faulty variant of ShortCircuit: the tests of `or` and `and` are swapped.
ShortCircuitSwapped(operator, left) ==
    IF operator = "or" THEN ~isTruthy(left) ELSE isTruthy(left)

\* check if we can short-circuit
ShortCircuit(operator, left) ==
    IF operator = "or" THEN isTruthy(left) ELSE ~isTruthy(left)

visitLogicalExpr_left ==
    /\ Resume("Logical")
    /\ Ctl(IF ShortCircuit(Top.expr.operator, ctrl.v) THEN Value(ctrl.v) ELSE Eval(Top.expr.right),
           Rest)
    /\ Pure

visitConditionalExpr ==
    /\ AtExpr("Conditional")
    /\ Ctl(Eval(ctrl.node.condition), Append(kont, [f |-> "Conditional", expr |-> ctrl.node]))
    /\ Pure

visitConditionalExpr_condition ==
    /\ Resume("Conditional")
    /\ Ctl(IF isTruthy(ctrl.v) THEN Eval(Top.expr.thenBranch) ELSE Eval(Top.expr.elseBranch), Rest)
    /\ Pure

visitGetExpr ==
    /\ AtExpr("Get")
    /\ Ctl(Eval(ctrl.node.object), Append(kont, [f |-> "Get", name |-> ctrl.node.name]))
    /\ Pure

\* A faulty variant of LoxInstanceGet: the methods are consulted before the
\* fields.
LoxInstanceGetMethodFirst(E, F, C, I, instance, name) ==
    LET method == findMethod(C, I[instance].klass, name)
    IN  IF method # 0
        THEN [kind |-> "method", bound |-> LoxFunctionBind(E, F, method, InstVal(instance))]
        ELSE IF name \in DOMAIN I[instance].fields
        THEN [kind |-> "field", value |-> I[instance].fields[name]]
        ELSE [kind |-> "error",
              error |-> RuntimeError("'" \o C[I[instance].klass].name
                                         \o "' has no property '" \o name \o "'.")]

\* LoxInstance.get(name): a field, else a method bound to the instance, else
\* a RuntimeError.  `kind` says which; a bound method is functions[fn].
LoxInstanceGet(E, F, C, I, instance, name) ==
    LET method == findMethod(C, I[instance].klass, name)
    IN  IF name \in DOMAIN I[instance].fields
        THEN [kind |-> "field", value |-> I[instance].fields[name]]
        ELSE IF method # 0
        THEN [kind |-> "method", bound |-> LoxFunctionBind(E, F, method, InstVal(instance))]
        ELSE [kind |-> "error",
              error |-> RuntimeError("'" \o C[I[instance].klass].name
                                         \o "' has no property '" \o name \o "'.")]

visitGetExpr_object ==
    /\ Resume("Get")
    /\ IF ctrl.v.t # "instance"
       THEN /\ Ctl(Throw(RuntimeError("Only instances have properties.")), Rest)
            /\ Pure
       ELSE LET r == LoxInstanceGet(envs, functions, classes, instances, ctrl.v.ref, Top.name)
            IN  CASE r.kind = "field"  -> Ctl(Value(r.value), Rest) /\ Pure
                  [] r.kind = "error"  -> Ctl(Throw(r.error), Rest) /\ Pure
                  [] r.kind = "method" ->
                        /\ envs' = r.bound.envs
                        /\ functions' = r.bound.functions
                        /\ Ctl(Value(FnVal(r.bound.fn)), Rest)
                        /\ UNCHANGED <<classes, instances, environment, output>>

visitSetExpr ==
    /\ AtExpr("Set")
    /\ Ctl(Eval(ctrl.node.object), Append(kont, [f |-> "Set", expr |-> ctrl.node, phase |-> "object"]))
    /\ Pure

visitSetExpr_object ==
    /\ Resume("Set")
    /\ Top.phase = "object"
    /\ IF ctrl.v.t # "instance"
       THEN Ctl(Throw(RuntimeError("Only instances have fields.")), Rest)
       ELSE Ctl(Eval(Top.expr.value), SetTop([f |-> "Set", expr |-> Top.expr, phase |-> "value",
                                              object |-> ctrl.v.ref]))
    /\ Pure

\* LoxInstance.set(name, value)
LoxInstanceSet(I, instance, name, value) ==
    [I EXCEPT ![instance].fields = Put(@, name, value)]

visitSetExpr_value ==
    /\ Resume("Set")
    /\ Top.phase = "value"
    /\ instances' = LoxInstanceSet(instances, Top.object, Top.expr.name, ctrl.v)
    /\ Ctl(Value(ctrl.v), Rest)
    /\ UNCHANGED <<envs, functions, classes, environment, output>>

\* A faulty variant of SuperMethod: the lookup starts at the superclass of
\* the class of `this`, not at the `super` of the enclosing class.
SuperMethodOfThis(E, F, C, env, L, expr) ==
    LET distance == L[expr.id]
        object   == EnvGetAt(E, env, distance - 1, "this")
    IN  IF ~object.ok THEN object
        ELSE LET superclass == C[instances[object.value.ref].klass].superclass
                 method     == IF superclass = 0 THEN 0
                               ELSE findMethod(C, superclass, expr.method)
             IN  IF method = 0
                 THEN [ok |-> FALSE,
                       error |-> RuntimeError("Undefined property '" \o expr.method \o "'.")]
                 ELSE [ok |-> TRUE, bound |-> LoxFunctionBind(E, F, method, object.value)]

\* visitSuperExpr: the bound method, or the error
SuperMethod(E, F, C, env, L, expr) ==
    IF expr.id \notin DOMAIN L
    THEN [ok |-> FALSE, error |-> HostError("getAt(undefined)")]
    ELSE
    LET distance   == L[expr.id]
        superclass == EnvGetAt(E, env, distance, "super")
        object     == EnvGetAt(E, env, distance - 1, "this")
    IN  IF ~superclass.ok THEN superclass
        ELSE IF ~object.ok THEN object
        ELSE LET method == findMethod(C, superclass.value.ref, expr.method)
             IN  IF method = 0
                 THEN [ok |-> FALSE,
                       error |-> RuntimeError("Undefined property '" \o expr.method \o "'.")]
                 ELSE [ok |-> TRUE, bound |-> LoxFunctionBind(E, F, method, object.value)]

visitSuperExpr ==
    /\ AtExpr("Super")
    /\ LET r == SuperMethod(envs, functions, classes, environment, locals, ctrl.node)
       IN  IF r.ok
           THEN /\ envs' = r.bound.envs
                /\ functions' = r.bound.functions
                /\ Ctl(Value(FnVal(r.bound.fn)), kont)
                /\ UNCHANGED <<classes, instances, environment, output>>
           ELSE /\ Ctl(Throw(r.error), kont)
                /\ Pure

-----------------------------------------------------------------------------
(* Interpreter: calls.                                                     *)

visitCallExpr ==
    /\ AtExpr("Call")
    /\ Ctl(Eval(ctrl.node.callee),
           Append(kont, [f |-> "Call", expr |-> ctrl.node, phase |-> "callee", args |-> <<>>]))
    /\ Pure

\* A faulty variant of CallNext: the arguments are evaluated from the last
\* to the first.
CallNextReversed(frame) ==
    IF Len(frame.args) < Len(frame.expr.args)
    THEN Eval(frame.expr.args[Len(frame.expr.args) - Len(frame.args)])
    ELSE Invoke

\* the callee, then expr.args.map((arg) => this.evaluate(arg)), in order
CallNext(frame) ==
    IF Len(frame.args) < Len(frame.expr.args)
    THEN Eval(frame.expr.args[Len(frame.args) + 1])
    ELSE Invoke

visitCallExpr_callee ==
    /\ Resume("Call")
    /\ Top.phase = "callee"
    /\ LET frame == [f |-> "Call", expr |-> Top.expr, phase |-> "args", args |-> <<>>,
                     callee |-> ctrl.v]
       IN  Ctl(CallNext(frame), SetTop(frame))
    /\ Pure

visitCallExpr_arg ==
    /\ Resume("Call")
    /\ Top.phase = "args"
    /\ LET frame == [Top EXCEPT !.args = Append(@, ctrl.v)]
       IN  Ctl(CallNext(frame), SetTop(frame))
    /\ Pure

Invoking == Running /\ ctrl.m = "invoke" /\ Len(kont) > 0 /\ Top.f = "Call"

\* callee.arity()
Arity(callee) ==
    CASE callee.t = "fn"     -> LoxFunctionArity(functions[callee.ref])
      [] callee.t = "class"  -> LoxClassArity(classes, functions, callee.ref)
      [] callee.t = "native" -> IF callee.native = "clock" THEN 0 ELSE 1

\* the two checks of visitCallExpr before callee.call
CallCheck(callee, args) ==
    IF ~IsCallable(callee)
    THEN [ok |-> FALSE, error |-> RuntimeError("Can only call functions and classes.")]
    ELSE IF Len(args) # Arity(callee)
    THEN [ok |-> FALSE,
          error |-> RuntimeError("Expected " \o ToString(Arity(callee)) \o " arguments but got "
                                 \o ToString(Len(args)) \o ".")]
    ELSE [ok |-> TRUE]

visitCallExpr_reject ==
    /\ Invoking
    /\ ~CallCheck(Top.callee, Top.args).ok
    /\ Ctl(Throw(CallCheck(Top.callee, Top.args).error), Rest)
    /\ Pure

CallOf(t) == Invoking /\ CallCheck(Top.callee, Top.args).ok /\ Top.callee.t = t

\* LoxFunction.call: the frames of call and of executeBlock on the stack K
LoxFunctionCallFrames(K, E, f, body) ==
    K \o << [f |-> "LoxFunction.call", fn |-> f],
            executeBlockFrame(body, Len(E) + 1) >>

LoxFunction_call ==
    /\ CallOf("fn")
    /\ envs' = LoxFunctionCallEnv(envs, functions[Top.callee.ref], Top.args)
    /\ environment' = Len(envs) + 1
    /\ Ctl(Normal, LoxFunctionCallFrames(Rest, envs, Top.callee.ref,
                                         functions[Top.callee.ref].declaration.body))
    /\ UNCHANGED <<functions, classes, instances, output>>

\* executeBlock returned
LoxFunction_call_end ==
    /\ Returned("LoxFunction.call")
    /\ Ctl(Outcome(LoxFunctionCallResult(envs, functions[Top.fn], Nil)), Rest)
    /\ Pure

\* catch (e) { if (e instanceof LoxFunction.Return) ... else throw e }
CallCatches == Top.f = "LoxFunction.call" /\ ctrl.error.k = "Return"

LoxFunction_call_catch ==
    /\ Thrown("LoxFunction.call")
    /\ CallCatches
    /\ Ctl(Outcome(LoxFunctionCallResult(envs, functions[Top.fn], ctrl.error.value)), Rest)
    /\ Pure

\* LoxClass.call
LoxClass_call ==
    /\ CallOf("class")
    /\ LET instance    == Len(instances) + 1
           initializer == findMethod(classes, Top.callee.ref, "init")
           bound       == LoxFunctionBind(envs, functions, initializer, InstVal(instance))
       IN  /\ instances' = Append(instances, LoxInstance(Top.callee.ref))
           /\ IF initializer = 0
              THEN /\ Ctl(Value(InstVal(instance)), Rest)
                   /\ UNCHANGED <<envs, functions, classes, environment, output>>
              ELSE /\ functions' = bound.functions
                   /\ envs' = LoxFunctionCallEnv(bound.envs, bound.functions[bound.fn], Top.args)
                   /\ environment' = Len(bound.envs) + 1
                   /\ Ctl(Normal,
                          LoxFunctionCallFrames(
                              Append(Rest, [f |-> "LoxClass.call", instance |-> instance]),
                              bound.envs, bound.fn,
                              bound.functions[bound.fn].declaration.body))
                   /\ UNCHANGED <<classes, output>>

\* the initializer returned: return instance
LoxClass_call_end ==
    /\ Resume("LoxClass.call")
    /\ Ctl(Value(InstVal(Top.instance)), Rest)
    /\ Pure

ClockValues == {1000, 1001}

LoxClockFn_call ==
    /\ CallOf("native")
    /\ Top.callee.native = "clock"
    /\ \E now \in ClockValues : Ctl(Value(Num(now)), Rest)
    /\ Pure

LoxLenFn(arg) ==
    IF arg.t = "str" THEN [ok |-> TRUE, value |-> Num(Len(arg.s))]
    ELSE [ok |-> FALSE, error |-> HostError("'len()' expects a string")]

LoxLenFn_call ==
    /\ CallOf("native")
    /\ Top.callee.native = "len"
    /\ Ctl(Outcome(LoxLenFn(Top.args[1])), Rest)
    /\ Pure

LoxTypeFn(arg) ==
    CASE arg.t = "nil"      -> "nil"
      [] arg.t = "class"    -> "class"
      [] arg.t \in {"fn", "native"} -> "function"
      [] arg.t = "instance" -> "object"
      [] arg.t = "num"      -> "number"
      [] arg.t = "str"      -> "string"
      [] arg.t = "bool"     -> "boolean"

LoxTypeFn_call ==
    /\ CallOf("native")
    /\ Top.callee.native = "type"
    /\ Ctl(Value(Str(LoxTypeFn(Top.args[1]))), Rest)
    /\ Pure

\* a thrown value leaves a call that has no try for it
Propagate ==
    /\ Running /\ ctrl.m = "throw" /\ Len(kont) > 0
    /\ Top.f # "executeBlock"
    /\ ~WhileCatches
    /\ ~CallCatches
    /\ Ctl(ctrl, Rest)
    /\ Pure

-----------------------------------------------------------------------------
(* Lexer (src/src/frontend/lexer.ts).  A source text is a sequence of      *)
(* one-character strings; start and cursor are the 0-based indices of the  *)
(* code.  console holds the lines the lexer prints.                        *)

Digits  == {"0", "1", "2", "3", "4", "5", "6", "7", "8", "9"}
Letters == {"a", "b", "c", "d", "e", "f", "g", "h", "i", "j", "k", "l", "m",
            "n", "o", "p", "q", "r", "s", "t", "u", "v", "w", "x", "y", "z",
            "A", "B", "C", "D", "E", "F", "G", "H", "I", "J", "K", "L", "M",
            "N", "O", "P", "Q", "R", "S", "T", "U", "V", "W", "X", "Y", "Z"}

isDigit(c) == c \in Digits

\* accepts the special characters $, _, @ and #
isAlpha(c) == c \in Letters \cup {"_", "$", "@", "#"}

isAlphaNumeric(c) == isAlpha(c) \/ isDigit(c)

Token(type, lexeme, literal, line, column) ==
    [type |-> type, lexeme |-> lexeme, literal |-> literal, line |-> line,
     column |-> column]

\* lookup table for keywords
KEYWORDS == {
    << <<"a", "n", "d">>, "AND" >>,
    << <<"b", "r", "e", "a", "k">>, "BREAK" >>,
    << <<"c", "l", "a", "s", "s">>, "CLASS" >>,
    << <<"e", "c", "h", "o">>, "ECHO" >>,
    << <<"e", "l", "s", "e">>, "ELSE" >>,
    << <<"f", "a", "l", "s", "e">>, "FALSE" >>,
    << <<"f", "o", "r">>, "FOR" >>,
    << <<"f", "n">>, "FN" >>,
    << <<"i", "f">>, "IF" >>,
    << <<"l", "e", "t">>, "LET" >>,
    << <<"n", "i", "l">>, "NIL" >>,
    << <<"o", "r">>, "OR" >>,
    << <<"r", "e", "t", "u", "r", "n">>, "RETURN" >>,
    << <<"s", "u", "p", "e", "r">>, "SUPER" >>,
    << <<"t", "h", "i", "s">>, "THIS" >>,
    << <<"t", "r", "u", "e">>, "TRUE" >>,
    << <<"w", "h", "i", "l", "e">>, "WHILE" >> }

\* KEYWORDS[text] ?? TokenType.IDENTIFIER
KeywordOr(text) ==
    IF \E k \in KEYWORDS : k[1] = text
    THEN (CHOOSE k \in KEYWORDS : k[1] = text)[2]
    ELSE "IDENTIFIER"

\* the cases of scan that push one token for one character
SingleCharacter == {
    << "(", "LPAREN" >>, << ")", "RPAREN" >>, << "{", "LBRACE" >>,
    << "}", "RBRACE" >>, << ",", "COMMA" >>, << "^", "CARET" >>,
    << ":", "COLON" >>, << ".", "DOT" >>, << "-", "MINUS" >>, << "+", "PLUS" >>,
    << "?", "QUESTION" >>, << ";", "SEMICOLON" >>, << "*", "STAR" >> }

\* the cases of scan that look for a following `=`
OneOrTwoCharacter == {
    << "!", "BANG", "BANG_EQUAL" >>, << "=", "EQUAL", "EQUAL_EQUAL" >>,
    << "<", "LESS", "LESS_EQUAL" >>, << ">", "GREATER", "GREATER_EQUAL" >> }

\* what `at` and `next` return past the end of the source
NUL == "NUL"

NewLexer(source) ==
    [source |-> source, tokens |-> <<>>, start |-> 0, cursor |-> 0, line |-> 1,
     console |-> <<>>]

isAtEnd(source, lx) == lx.cursor >= Len(source)

advance(lx) == [lx EXCEPT !.cursor = @ + 1]

at(source, lx) == IF isAtEnd(source, lx) THEN NUL ELSE source[lx.cursor + 1]

next(source, lx) ==
    IF lx.cursor + 1 >= Len(source) THEN NUL ELSE source[lx.cursor + 2]

\* match, without its advance
match(source, lx, expected) == ~isAtEnd(source, lx) /\ at(source, lx) = expected

\* String.prototype.substring for 0 <= from <= to
substring(source, from, to) == SubSeq(source, from + 1, to)

\* String.prototype.lastIndexOf(c, position)
lastIndexOf(source, c, position) ==
    LET found == {i \in 0..(Len(source) - 1) : i <= position /\ source[i + 1] = c}
    IN  IF found = {} THEN -1 ELSE CHOOSE i \in found : \A j \in found : j <= i

push(source, lx, type, literal) ==
    LET raw    == substring(source, lx.start, lx.cursor)
        column == lx.cursor - lastIndexOf(source, "\n", lx.start) - 1
    IN  [lx EXCEPT !.tokens = Append(@, Token(type, raw, literal, lx.line, column))]

RECURSIVE DecimalValue(_)
DecimalValue(digits) ==
    IF digits = <<>> THEN 0
    ELSE 10 * DecimalValue(SubSeq(digits, 1, Len(digits) - 1))
         + (CHOOSE d \in 0..9 : ToString(d) = digits[Len(digits)])

RECURSIVE TrimZeros(_)
TrimZeros(digits) ==
    IF digits # <<>> /\ digits[Len(digits)] = "0"
    THEN TrimZeros(SubSeq(digits, 1, Len(digits) - 1))
    ELSE digits

\* parseFloat of digits with an optional fraction: the whole part and the
\* significant digits of the fraction
parseFloat(text) ==
    LET dots  == {i \in 1..Len(text) : text[i] = "."}
        point == IF dots = {} THEN Len(text) + 1 ELSE CHOOSE i \in dots : TRUE
    IN  [whole    |-> DecimalValue(SubSeq(text, 1, point - 1)),
         fraction |-> TrimZeros(SubSeq(text, point + 1, Len(text)))]

\* scan, case '/': a comment goes until the end of the line
RECURSIVE comment(_, _)
comment(source, lx) ==
    IF at(source, lx) # "\n" /\ ~isAtEnd(source, lx)
    THEN comment(source, advance(lx))
    ELSE lx

RECURSIVE stringBody(_, _, _)
stringBody(source, lx, quote) ==
    IF at(source, lx) # quote /\ ~isAtEnd(source, lx)
    THEN stringBody(source,
                    advance(IF at(source, lx) = "\n"
                            THEN [lx EXCEPT !.line = @ + 1] ELSE lx),
                    quote)
    ELSE lx

\* A faulty variant of Lexer.string: an unterminated string still yields a token.
stringUnterminatedToken(source, lx0, quote) ==
    LET lx == stringBody(source, lx0, quote)
    IN  IF isAtEnd(source, lx)
        THEN push(source, [lx EXCEPT !.console = Append(@, "Unterminated string")],
                  "STRING", substring(source, lx.start + 1, lx.cursor))
        ELSE LET closed == advance(lx)
                 value  == substring(source, closed.start + 1, closed.cursor - 1)
             IN  push(source, closed, "STRING", value)

\* Lexer.string
string(source, lx0, quote) ==
    LET lx == stringBody(source, lx0, quote)
    IN  IF isAtEnd(source, lx)
        THEN [lx EXCEPT !.console = Append(@, "Unterminated string")]
        ELSE LET closed == advance(lx)
                 value  == substring(source, closed.start + 1, closed.cursor - 1)
             IN  push(source, closed, "STRING", value)

RECURSIVE identifierBody(_, _)
identifierBody(source, lx) ==
    IF isAlphaNumeric(at(source, lx)) THEN identifierBody(source, advance(lx)) ELSE lx

\* Lexer.identifier
identifier(source, lx0) ==
    LET lx   == identifierBody(source, lx0)
        text == substring(source, lx.start, lx.cursor)
    IN  push(source, lx, KeywordOr(text), None)

RECURSIVE digits(_, _)
digits(source, lx) ==
    IF isDigit(at(source, lx)) THEN digits(source, advance(lx)) ELSE lx

\* Lexer.number
number(source, lx0) ==
    LET whole == digits(source, lx0)
        lx    == IF at(source, whole) = "." /\ isDigit(next(source, whole))
                 THEN digits(source, advance(whole))
                 ELSE whole
    IN  push(source, lx, "NUMBER", parseFloat(substring(source, lx.start, lx.cursor)))

\* Lexer.scan
scan(source, lx0) ==
    LET c  == source[lx0.cursor + 1]
        lx == advance(lx0)
    IN  IF \E t \in SingleCharacter : t[1] = c
          THEN push(source, lx, (CHOOSE t \in SingleCharacter : t[1] = c)[2], None)
        ELSE IF \E t \in OneOrTwoCharacter : t[1] = c
          THEN LET t == CHOOSE t \in OneOrTwoCharacter : t[1] = c
               IN  IF match(source, lx, "=")
                   THEN push(source, advance(lx), t[3], None)
                   ELSE push(source, lx, t[2], None)
        ELSE IF c = "/"
          THEN IF match(source, lx, "/")
               THEN comment(source, advance(lx))
               ELSE push(source, lx, "SLASH", None)
        ELSE IF c \in {" ", "\r", "\t"} THEN lx
        ELSE IF c = "\n" THEN [lx EXCEPT !.line = @ + 1]
        ELSE IF c \in {"\"", "'"} THEN string(source, lx, c)
        ELSE IF isDigit(c) THEN number(source, lx)
        ELSE IF isAlpha(c) THEN identifier(source, lx)
        ELSE [lx EXCEPT !.console = Append(@, "Unexpected character: " \o c)]

\* one turn of the loop of lex: this.start = this.cursor; this.scan()
lexTurn(lx) == scan(lx.source, [lx EXCEPT !.start = lx.cursor])

\* lex after its loop: the EOF token is pushed
lexEnd(lx) == [lx EXCEPT !.tokens = Append(@, Token("EOF", <<>>, None, lx.line, 0))]

RECURSIVE lexLoop(_)
lexLoop(lx) == IF isAtEnd(lx.source, lx) THEN lexEnd(lx) ELSE lexLoop(lexTurn(lx))

\* Lexer.lex
lex(source) == lexLoop(NewLexer(source))

-----------------------------------------------------------------------------
(* Parser (src/src/frontend/parser.ts).  A parser is a record: the tokens, *)
(* `current` (0-based, as in the code), the statements parse has collected *)
(* and the errors reported through Lox.error.  `failed` says a ParseError  *)
(* has been thrown and not yet caught by parse: every operation up to the  *)
(* catch is skipped.  A rule returns the parser and the node it built.     *)
(* A Variable, This, Super or Assign node is identified by the position of *)
(* its token (for Assign: of the `=`).                                     *)

NewParser(tokens) ==
    [tokens |-> tokens, current |-> 0, statements |-> <<>>, errors |-> <<>>,
     failed |-> FALSE]

RECURSIVE JoinChars(_)
JoinChars(chars) == IF chars = <<>> THEN "" ELSE Head(chars) \o JoinChars(Tail(chars))

\* token.lexeme as a name or an operator of the syntax tree
Lexeme(token) == JoinChars(token.lexeme)

\* the value of a NUMBER or STRING token
LiteralValue(token) ==
    IF token.type = "STRING" THEN Str(JoinChars(token.literal))
    ELSE IF token.literal.fraction = <<>> THEN Num(token.literal.whole)
    ELSE [t |-> "num", n |-> token.literal.whole, fraction |-> token.literal.fraction]

peek(p) == p.tokens[p.current + 1]

prev(p) == p.tokens[p.current]

eof(p) == peek(p).type = "EOF"

check(p, type) == ~p.failed /\ ~eof(p) /\ peek(p).type = type

checkNext(p, type) ==
    /\ ~eof(p)
    /\ p.tokens[p.current + 2].type # "EOF"
    /\ p.tokens[p.current + 2].type = type

\* Parser.advance
Parser_advance(p) == IF eof(p) THEN p ELSE [p EXCEPT !.current = @ + 1]

\* Parser.match, without its advance
matches(p, types) == \E type \in types : check(p, type)

\* Parser.error: Lox.error(token, message); `token` is the position of the token
error(p, token, message) ==
    [p EXCEPT !.errors = Append(@, [message |-> message, token |-> token])]

\* throw this.error(this.peek(), message)
throwError(p, message) == [error(p, p.current + 1, message) EXCEPT !.failed = TRUE]

consume(p, type, message) ==
    IF p.failed THEN p
    ELSE IF check(p, type) THEN Parser_advance(p)
    ELSE throwError(p, message)

Result(p, node) == [p |-> p, node |-> node]

\* the operators a rule of binary or logical expressions loops on
Operators(rule) ==
    CASE rule = "or"         -> {"OR"}
      [] rule = "and"        -> {"AND"}
      [] rule = "equality"   -> {"BANG_EQUAL", "EQUAL_EQUAL"}
      [] rule = "comparison" -> {"GREATER", "GREATER_EQUAL", "LESS", "LESS_EQUAL"}
      [] rule = "term"       -> {"MINUS", "PLUS"}
      [] rule = "factor"     -> {"SLASH", "STAR"}

RECURSIVE Parse(_, _, _)

\* the right operand of a rule
operand(rule, p) ==
    CASE rule = "or"         -> Parse("and", p, None)
      [] rule = "and"        -> Parse("conditional", p, None)
      [] rule = "equality"   -> Parse("comparison", p, None)
      [] rule = "comparison" -> Parse("term", p, None)
      [] rule = "term"       -> Parse("factor", p, None)
      [] rule = "factor"     -> Parse("unary", p, None)

\* while (this.match(...)) { operator = prev(); right = ...; expr = new ...(expr, operator, right) }
operatorLoop(rule, left) ==
    IF left.p.failed THEN left
    ELSE IF matches(left.p, Operators(rule))
    THEN LET operator == Lexeme(peek(left.p))
             right    == Parse("operand", rule, Parser_advance(left.p))
         IN  Parse("operatorLoop", rule,
                 Result(right.p,
                        IF rule \in {"or", "and"}
                        THEN LogicalExpr(left.node, operator, right.node)
                        ELSE BinaryExpr(left.node, operator, right.node)))
    ELSE left

conditionalLoop(left) ==
    IF left.p.failed THEN left
    ELSE IF matches(left.p, {"QUESTION"})
    THEN LET thenBranch == Parse("expression", Parser_advance(left.p), None)
             colon      == consume(thenBranch.p, "COLON",
                               "Expected ':' after then branch of conditional expression.")
         IN  IF colon.failed THEN Result(colon, None)
             ELSE LET elseBranch == Parse("expression", colon, None)
                  IN  Parse("conditionalLoop", Result(elseBranch.p,
                          ConditionalExpr(left.node, thenBranch.node, elseBranch.node)),
                          None)
    ELSE left

\* do { args.push(this.expression()) } while (this.match(TokenType.COMMA))
arguments(p, args) ==
    LET p1  == IF ~p.failed /\ Len(args) >= 255
               THEN error(p, p.current + 1, "Cannot have more than 255 arguments.")
               ELSE p
        arg == Parse("expression", p1, None)
    IN  IF matches(arg.p, {"COMMA"})
        THEN Parse("arguments", Parser_advance(arg.p), Append(args, arg.node))
        ELSE Result(arg.p, Append(args, arg.node))

finishCall(p, callee) ==
    LET args  == IF ~check(p, "RPAREN") THEN Parse("arguments", p, <<>>) ELSE Result(p, <<>>)
        paren == consume(args.p, "RPAREN", "Expected ')' after arguments.")
    IN  Result(paren, CallExpr(callee, args.node))

callLoop(left) ==
    IF left.p.failed THEN left
    ELSE IF matches(left.p, {"LPAREN"})
    THEN Parse("callLoop", Parse("finishCall", Parser_advance(left.p), left.node), None)
    ELSE IF matches(left.p, {"DOT"})
    THEN LET name == consume(Parser_advance(left.p), "IDENTIFIER",
                             "Expected property name after '.'.")
         IN  Parse("callLoop", Result(name, GetExpr(left.node, Lexeme(prev(name)))), None)
    ELSE left

primary(p) ==
    IF p.failed THEN Result(p, None)
    ELSE LET q == Parser_advance(p)
         IN  CASE check(p, "FALSE") -> Result(q, LiteralExpr(Bool(FALSE)))
               [] check(p, "TRUE")  -> Result(q, LiteralExpr(Bool(TRUE)))
               [] check(p, "NIL")   -> Result(q, LiteralExpr(Nil))
               [] check(p, "NUMBER") \/ check(p, "STRING") ->
                      Result(q, LiteralExpr(LiteralValue(peek(p))))
               [] check(p, "THIS")  -> Result(q, ThisExpr(q.current))
               [] check(p, "IDENTIFIER") ->
                      Result(q, VariableExpr(q.current, Lexeme(peek(p))))
               [] check(p, "SUPER") ->
                      LET dot    == consume(q, "DOT", "Expected '.' after 'super'.")
                          method == consume(dot, "IDENTIFIER", "Expected superclass method name.")
                      IN  Result(method, SuperExpr(q.current, Lexeme(prev(method))))
               [] check(p, "FN")    -> Parse("fnBody", q, "function")
               [] check(p, "LPAREN") ->
                      LET expr  == Parse("expression", q, None)
                          paren == consume(expr.p, "RPAREN", "Expected ')' after expression.")
                      IN  Result(paren, GroupingExpr(expr.node))
               [] OTHER -> Result(throwError(p, "Expected expression."), None)

call(p) == callLoop(primary(p))

unary(p) ==
    IF matches(p, {"BANG", "MINUS"})
    THEN LET right == Parse("unary", Parser_advance(p), None)
         IN  Result(right.p, UnaryExpr(Lexeme(peek(p)), right.node))
    ELSE call(p)

factor(p) == operatorLoop("factor", unary(p))

term(p) == operatorLoop("term", factor(p))

comparison(p) == operatorLoop("comparison", term(p))

equality(p) == operatorLoop("equality", comparison(p))

conditional(p) == conditionalLoop(equality(p))

and(p) == operatorLoop("and", conditional(p))

or(p) == operatorLoop("or", and(p))

\* A faulty variant of assignment: the error of an invalid target is thrown.
assignmentThrows(p) ==
    LET left == or(p)
    IN  IF left.p.failed THEN left
        ELSE IF matches(left.p, {"EQUAL"})
        THEN LET equals == left.p.current + 1
                 value  == Parse("assignment", Parser_advance(left.p), None)
             IN  IF value.p.failed THEN value
                 ELSE IF left.node.k = "Variable"
                 THEN Result(value.p, AssignExpr(equals, left.node.name, value.node))
                 ELSE IF left.node.k = "Get"
                 THEN Result(value.p, SetExpr(left.node.object, left.node.name, value.node))
                 ELSE Result([error(value.p, equals, "Invalid assignment target.")
                                  EXCEPT !.failed = TRUE], left.node)
        ELSE left

\* Parser.assignment
assignment(p) ==
    LET left == or(p)
    IN  IF left.p.failed THEN left
        ELSE IF matches(left.p, {"EQUAL"})
        THEN LET equals == left.p.current + 1
                 value  == Parse("assignment", Parser_advance(left.p), None)
             IN  IF value.p.failed THEN value
                 ELSE IF left.node.k = "Variable"
                 THEN Result(value.p, AssignExpr(equals, left.node.name, value.node))
                 ELSE IF left.node.k = "Get"
                 THEN Result(value.p, SetExpr(left.node.object, left.node.name, value.node))
                 ELSE Result(error(value.p, equals, "Invalid assignment target."), left.node)
        ELSE left

expression(p) == assignment(p)

declaration(p) ==
    CASE matches(p, {"CLASS"}) -> Parse("classDeclaration", Parser_advance(p), None)
      [] check(p, "FN") /\ checkNext(p, "IDENTIFIER") ->
             Parse("fnDeclaration", consume(p, "FN", "Expected function declaration."),
                   "function")
      [] matches(p, {"LET"}) -> Parse("letDeclaration", Parser_advance(p), None)
      [] OTHER -> Parse("statement", p, None)

\* while (!this.check(RBRACE) && !this.eof()) methods.push(this.fnDeclaration('method'))
methods(p, list) ==
    IF ~p.failed /\ ~check(p, "RBRACE") /\ ~eof(p)
    THEN LET method == Parse("fnDeclaration", p, "method")
         IN  Parse("methods", method.p, Append(list, method.node))
    ELSE Result(p, list)

classDeclaration(p) ==
    LET name       == consume(p, "IDENTIFIER", "Expected class name.")
        superName  == IF matches(name, {"LESS"})
                      THEN consume(Parser_advance(name), "IDENTIFIER",
                                   "Expected superclass name.")
                      ELSE name
        superclass == IF matches(name, {"LESS"})
                      THEN VariableExpr(superName.current, Lexeme(prev(superName)))
                      ELSE None
        brace      == consume(superName, "LBRACE", "Expected '{' before class body.")
        body       == Parse("methods", brace, <<>>)
        close      == consume(body.p, "RBRACE", "Expected '}' after class body.")
    IN  Result(close, ClassStmt(Lexeme(prev(name)), superclass, body.node))

statement(p) ==
    LET q == Parser_advance(p)
    IN  CASE check(p, "FOR")    -> Parse("forStatement", q, None)
          [] check(p, "IF")     -> Parse("ifStatement", q, None)
          [] check(p, "ECHO")   -> Parse("echoStatement", q, None)
          [] check(p, "RETURN") -> Parse("returnStatement", q, None)
          [] check(p, "WHILE")  -> Parse("whileStatement", q, None)
          [] check(p, "BREAK")  -> Parse("breakStatement", q, None)
          [] check(p, "LBRACE") -> LET body == Parse("block", q, None) IN Result(body.p, BlockStmt(body.node))
          [] OTHER              -> Parse("expressionStatement", p, None)

forStatement(p) ==
    LET paren       == consume(p, "LPAREN", "Expected '(' after 'for'.")
        initializer == IF matches(paren, {"SEMICOLON"})
                       THEN Result(Parser_advance(paren), None)
                       ELSE IF matches(paren, {"LET"})
                       THEN Parse("letDeclaration", Parser_advance(paren), None)
                       ELSE Parse("expressionStatement", paren, None)
        condition   == IF ~check(initializer.p, "SEMICOLON")
                       THEN Parse("expression", initializer.p, None)
                       ELSE Result(initializer.p, None)
        semicolon   == consume(condition.p, "SEMICOLON",
                               "Expected ';' after looop condition.")
        increment   == IF ~check(semicolon, "RPAREN")
                       THEN Parse("expression", semicolon, None)
                       ELSE Result(semicolon, None)
        close       == consume(increment.p, "RPAREN", "Expected, ')' after for clauses.")
        body        == Parse("statement", close, None)
        \* desugaring: the interpreter only knows while
        body1       == IF increment.node.k # "None"
                       THEN BlockStmt(<< body.node, ExpressionStmt(increment.node) >>)
                       ELSE body.node
        body2       == WhileStmt(IF condition.node.k = "None"
                                 THEN LiteralExpr(Bool(TRUE)) ELSE condition.node,
                                 body1)
    IN  Result(body.p, IF initializer.node.k # "None"
                       THEN BlockStmt(<< initializer.node, body2 >>)
                       ELSE body2)

ifStatement(p) ==
    LET paren      == consume(p, "LPAREN", "Expected '(' after 'if'.")
        condition  == Parse("expression", paren, None)
        close      == consume(condition.p, "RPAREN", "Expected ')' after if condition.")
        thenBranch == Parse("statement", close, None)
        elseBranch == IF matches(thenBranch.p, {"ELSE"})
                      THEN Parse("statement", Parser_advance(thenBranch.p), None)
                      ELSE Result(thenBranch.p, None)
    IN  Result(elseBranch.p, IfStmt(condition.node, thenBranch.node, elseBranch.node))

echoStatement(p) ==
    LET value == Parse("expression", p, None)
    IN  IF value.p.failed THEN value
        ELSE Result(consume(value.p, "SEMICOLON", "Expected ';' after value."),
                    EchoStmt(value.node))

returnStatement(p) ==
    LET value == IF ~check(p, "SEMICOLON") THEN Parse("expression", p, None) ELSE Result(p, None)
    IN  Result(consume(value.p, "SEMICOLON", "Expected ';' after return value."),
               ReturnStmt(value.node))

letDeclaration(p) ==
    LET name        == consume(p, "IDENTIFIER", "Expected variable name.")
        initializer == IF matches(name, {"EQUAL"})
                       THEN Parse("expression", Parser_advance(name), None)
                       ELSE Result(name, None)
    IN  Result(consume(initializer.p, "SEMICOLON",
                       "Expected ';' after variable declaration."),
               LetStmt(Lexeme(prev(name)), initializer.node))

whileStatement(p) ==
    LET paren     == consume(p, "LPAREN", "Expected '(' after 'while'.")
        condition == Parse("expression", paren, None)
        close     == consume(condition.p, "RPAREN", "Expected ')' after condition.")
        body      == Parse("statement", close, None)
    IN  Result(body.p, WhileStmt(condition.node, body.node))

breakStatement(p) == Result(consume(p, "SEMICOLON", "Expected ';' after 'break'."), BreakStmt)

\* while (!this.check(RBRACE) && !this.eof()) statements.push(this.declaration())
blockLoop(p, list) ==
    IF ~p.failed /\ ~check(p, "RBRACE") /\ ~eof(p)
    THEN LET stmt == Parse("declaration", p, None)
         IN  Parse("blockLoop", stmt.p, Append(list, stmt.node))
    ELSE Result(p, list)

block(p) ==
    LET body == Parse("blockLoop", p, <<>>)
    IN  Result(consume(body.p, "RBRACE", "Expected '}' after block."), body.node)

expressionStatement(p) ==
    LET expr == Parse("expression", p, None)
    IN  IF expr.p.failed THEN expr
        ELSE Result(consume(expr.p, "SEMICOLON", "Expected ';' after expression."),
                    ExpressionStmt(expr.node))

fnDeclaration(p, kind) ==
    LET name == consume(p, "IDENTIFIER", "Expected " \o kind \o " after name.")
        fn   == Parse("fnBody", name, kind)
    IN  Result(fn.p, FunctionStmt(Lexeme(prev(name)), fn.node))

\* do { parameters.push(this.consume(IDENTIFIER, ...)) } while (this.match(COMMA))
parameters(p, list) ==
    LET p1   == IF ~p.failed /\ Len(list) >= 255
                THEN error(p, p.current + 1, "Cannot have more than 255 parameters.")
                ELSE p
        name == consume(p1, "IDENTIFIER", "Expected parameter name.")
    IN  IF name.failed THEN Result(name, list)
        ELSE IF matches(name, {"COMMA"})
        THEN Parse("parameters", Parser_advance(name), Append(list, Lexeme(prev(name))))
        ELSE Result(name, Append(list, Lexeme(prev(name))))

fnBody(p, kind) ==
    LET paren  == consume(p, "LPAREN", "Expected '(' after " \o kind \o " name.")
        params == IF ~paren.failed /\ ~check(paren, "RPAREN")
                  THEN Parse("parameters", paren, <<>>)
                  ELSE Result(paren, <<>>)
        close  == consume(params.p, "RPAREN", "Expected ')' after parameters.")
        brace  == consume(close, "LBRACE", "Expected '{' before " \o kind \o " body.")
        body   == Parse("block", brace, None)
    IN  Result(body.p, FunctionExpr(params.node, body.node))

\* rule(a) or rule(a, b): the rules call each other through Parse
Parse(rule, a, b) ==
    CASE rule = "expression" -> expression(a)
      [] rule = "assignment" -> assignment(a)
      [] rule = "or" -> or(a)
      [] rule = "and" -> and(a)
      [] rule = "conditional" -> conditional(a)
      [] rule = "conditionalLoop" -> conditionalLoop(a)
      [] rule = "equality" -> equality(a)
      [] rule = "comparison" -> comparison(a)
      [] rule = "term" -> term(a)
      [] rule = "factor" -> factor(a)
      [] rule = "unary" -> unary(a)
      [] rule = "call" -> call(a)
      [] rule = "callLoop" -> callLoop(a)
      [] rule = "finishCall" -> finishCall(a, b)
      [] rule = "arguments" -> arguments(a, b)
      [] rule = "primary" -> primary(a)
      [] rule = "operand" -> operand(a, b)
      [] rule = "operatorLoop" -> operatorLoop(a, b)
      [] rule = "declaration" -> declaration(a)
      [] rule = "classDeclaration" -> classDeclaration(a)
      [] rule = "methods" -> methods(a, b)
      [] rule = "statement" -> statement(a)
      [] rule = "forStatement" -> forStatement(a)
      [] rule = "ifStatement" -> ifStatement(a)
      [] rule = "echoStatement" -> echoStatement(a)
      [] rule = "returnStatement" -> returnStatement(a)
      [] rule = "letDeclaration" -> letDeclaration(a)
      [] rule = "whileStatement" -> whileStatement(a)
      [] rule = "breakStatement" -> breakStatement(a)
      [] rule = "block" -> block(a)
      [] rule = "blockLoop" -> blockLoop(a, b)
      [] rule = "expressionStatement" -> expressionStatement(a)
      [] rule = "fnDeclaration" -> fnDeclaration(a, b)
      [] rule = "fnBody" -> fnBody(a, b)
      [] rule = "parameters" -> parameters(a, b)

\* the tokens at which synchronize stops
StatementStart == {"CLASS", "ECHO", "FN", "FOR", "IF", "LET", "WHILE", "RETURN"}

RECURSIVE synchronizeLoop(_)
synchronizeLoop(p) ==
    IF eof(p) \/ prev(p).type = "SEMICOLON" \/ peek(p).type \in StatementStart
    THEN p
    ELSE synchronizeLoop(Parser_advance(p))

synchronize(p) == synchronizeLoop(Parser_advance(p))

\* one turn of the loop of parse: try { statements.push(this.declaration()) }
\* catch (err) { if (err instanceof ParseError) this.synchronize() }
parseStatement(stmt) ==
    IF stmt.p.failed
    THEN synchronize([stmt.p EXCEPT !.failed = FALSE])
    ELSE [stmt.p EXCEPT !.statements = Append(@, stmt.node)]

parseTurn(p) == parseStatement(Parse("declaration", p, None))

RECURSIVE parseLoop(_)
parseLoop(p) == IF eof(p) THEN p ELSE parseLoop(parseTurn(p))

\* Parser.parse
parse(tokens) == parseLoop(NewParser(tokens))

-----------------------------------------------------------------------------
(* The sources the driver is given.  Each is the result of Lexer.lex and   *)
(* Parser.parse on a source text: the syntax errors reported, and the      *)
(* statement list returned.                                                *)

N(n)        == LiteralExpr(Num(n))
S(s)        == LiteralExpr(Str(s))
V(id, name) == VariableExpr(id, name)
Fn(params, body) == FunctionExpr(params, body)
Call0(callee)    == CallExpr(callee, <<>>)
Method(name, params, body) == FunctionStmt(name, FunctionExpr(params, body))

\* let i = 0; while (true) { if (i == 2) break; i = i + 1; }
\* echo i; echo 1 / 0; echo "after";
ProgBreakThenError == <<
    LetStmt("i", N(0)),
    WhileStmt(LiteralExpr(Bool(TRUE)), BlockStmt(<<
        IfStmt(BinaryExpr(V(101, "i"), "==", N(2)), BreakStmt, None),
        ExpressionStmt(AssignExpr(102, "i", BinaryExpr(V(103, "i"), "+", N(1)))) >>)),
    EchoStmt(V(104, "i")),
    EchoStmt(BinaryExpr(N(1), "/", N(0))),
    EchoStmt(S("after")) >>

\* fn makeCounter() { let i = 0; fn count() { i = i + 1; echo i; } return count; }
\* let c = makeCounter(); c(); c(); let d = makeCounter(); d(); c();
ProgCounter == <<
    FunctionStmt("makeCounter", Fn(<<>>, <<
        LetStmt("i", N(0)),
        FunctionStmt("count", Fn(<<>>, <<
            ExpressionStmt(AssignExpr(201, "i", BinaryExpr(V(202, "i"), "+", N(1)))),
            EchoStmt(V(203, "i")) >>)),
        ReturnStmt(V(204, "count")) >>)),
    LetStmt("c", Call0(V(205, "makeCounter"))),
    ExpressionStmt(Call0(V(206, "c"))),
    ExpressionStmt(Call0(V(207, "c"))),
    LetStmt("d", Call0(V(208, "makeCounter"))),
    ExpressionStmt(Call0(V(209, "d"))),
    ExpressionStmt(Call0(V(210, "c"))) >>

\* class A { who() { echo this.tag; } m() { echo "A.m"; } }
\* class B < A { m() { echo "B.m"; } test() { super.m(); super.who(); }
\*               miss() { super.nope(); } }
\* class C < B { m() { echo "C.m"; } }
\* let c = C(); c.tag = "c"; c.test(); c.m(); c.miss();
ProgSuper == <<
    ClassStmt("A", None, <<
        Method("who", <<>>, << EchoStmt(GetExpr(ThisExpr(301), "tag")) >>),
        Method("m", <<>>, << EchoStmt(S("A.m")) >>) >>),
    ClassStmt("B", V(302, "A"), <<
        Method("m", <<>>, << EchoStmt(S("B.m")) >>),
        Method("test", <<>>, << ExpressionStmt(Call0(SuperExpr(303, "m"))),
                                ExpressionStmt(Call0(SuperExpr(304, "who"))) >>),
        Method("miss", <<>>, << ExpressionStmt(Call0(SuperExpr(305, "nope"))) >>) >>),
    ClassStmt("C", V(306, "B"), <<
        Method("m", <<>>, << EchoStmt(S("C.m")) >>) >>),
    LetStmt("c", Call0(V(307, "C"))),
    ExpressionStmt(SetExpr(V(308, "c"), "tag", S("c"))),
    ExpressionStmt(Call0(GetExpr(V(309, "c"), "test"))),
    ExpressionStmt(Call0(GetExpr(V(310, "c"), "m"))),
    ExpressionStmt(Call0(GetExpr(V(311, "c"), "miss"))) >>

\* class Box { init(v) { this.v = v; } }
\* class Q { init() { return; } }
\* let b = Box(42); echo b.v; echo type(b); echo b.init(7) == b; echo b.v;
\* let q = Q(); echo q.init() == q;
ProgInit == <<
    ClassStmt("Box", None, <<
        Method("init", <<"v">>, <<
            ExpressionStmt(SetExpr(ThisExpr(401), "v", V(402, "v"))) >>) >>),
    ClassStmt("Q", None, << Method("init", <<>>, << ReturnStmt(None) >>) >>),
    LetStmt("b", CallExpr(V(403, "Box"), << N(42) >>)),
    EchoStmt(GetExpr(V(404, "b"), "v")),
    EchoStmt(CallExpr(V(405, "type"), << V(406, "b") >>)),
    EchoStmt(BinaryExpr(CallExpr(GetExpr(V(407, "b"), "init"), << N(7) >>), "==", V(408, "b"))),
    EchoStmt(GetExpr(V(409, "b"), "v")),
    LetStmt("q", Call0(V(410, "Q"))),
    EchoStmt(BinaryExpr(Call0(GetExpr(V(411, "q"), "init")), "==", V(412, "q"))) >>

\* class A { m() { return "A.m"; } n() { return "A.n"; } }
\* class B < A { m() { return "B.m"; } }
\* let b = B(); echo b.m(); echo b.n(); b.n = "field"; echo b.n; echo b.zip;
ProgProperty == <<
    ClassStmt("A", None, <<
        Method("m", <<>>, << ReturnStmt(S("A.m")) >>),
        Method("n", <<>>, << ReturnStmt(S("A.n")) >>) >>),
    ClassStmt("B", V(501, "A"), << Method("m", <<>>, << ReturnStmt(S("B.m")) >>) >>),
    LetStmt("b", Call0(V(502, "B"))),
    EchoStmt(Call0(GetExpr(V(503, "b"), "m"))),
    EchoStmt(Call0(GetExpr(V(504, "b"), "n"))),
    ExpressionStmt(SetExpr(V(505, "b"), "n", S("field"))),
    EchoStmt(GetExpr(V(506, "b"), "n")),
    EchoStmt(GetExpr(V(507, "b"), "zip")) >>

\* { let a = fn() { return a; }(); echo a; }
ProgSelfRead == <<
    BlockStmt(<<
        LetStmt("a", Call0(Fn(<<>>, << ReturnStmt(V(601, "a")) >>))),
        EchoStmt(V(602, "a")) >>) >>

\* echo "x"; return 1;
ProgTopReturn == << EchoStmt(S("x")), ReturnStmt(N(1)) >>

\* echo "before"; echo ;
ProgSyntaxError == << EchoStmt(S("before")) >>

\* echo len("ab"); echo len(1); echo "after";
ProgLen == <<
    EchoStmt(CallExpr(V(901, "len"), << S("ab") >>)),
    EchoStmt(CallExpr(V(902, "len"), << N(1) >>)),
    EchoStmt(S("after")) >>

\* echo -(1 + 2) * 3; echo !nil and 1 or 2; echo nil or "fallback";
\* echo 1 == 1 ? "yes" : "no";
\* let f = fn(x) { return x; }; echo f(3); echo f; echo type(f);
\* for (let j = 0; j < 2; j = j + 1) echo j;
\* echo clock() >= 1000;
ProgExpressions == <<
    EchoStmt(BinaryExpr(UnaryExpr("-", GroupingExpr(BinaryExpr(N(1), "+", N(2)))), "*", N(3))),
    EchoStmt(LogicalExpr(LogicalExpr(UnaryExpr("!", LiteralExpr(Nil)), "and", N(1)), "or", N(2))),
    EchoStmt(LogicalExpr(LiteralExpr(Nil), "or", S("fallback"))),
    EchoStmt(ConditionalExpr(BinaryExpr(N(1), "==", N(1)), S("yes"), S("no"))),
    LetStmt("f", Fn(<<"x">>, << ReturnStmt(V(1001, "x")) >>)),
    EchoStmt(CallExpr(V(1002, "f"), << N(3) >>)),
    EchoStmt(V(1003, "f")),
    EchoStmt(CallExpr(V(1004, "type"), << V(1005, "f") >>)),
    BlockStmt(<<
        LetStmt("j", N(0)),
        WhileStmt(BinaryExpr(V(1006, "j"), "<", N(2)), BlockStmt(<<
            EchoStmt(V(1007, "j")),
            ExpressionStmt(AssignExpr(1008, "j", BinaryExpr(V(1009, "j"), "+", N(1)))) >>)) >>),
    EchoStmt(BinaryExpr(Call0(V(1010, "clock")), ">=", N(1000))) >>

\* fn f(a) {} echo "x"; f(); echo "after";
ProgArity == <<
    FunctionStmt("f", Fn(<<"a">>, <<>>)),
    EchoStmt(S("x")),
    ExpressionStmt(Call0(V(1101, "f"))),
    EchoStmt(S("after")) >>

\* let NotClass = 1; class X < NotClass {} echo "after";
ProgBadSuperclass == <<
    LetStmt("NotClass", N(1)),
    ClassStmt("X", V(1201, "NotClass"), <<>>),
    EchoStmt(S("after")) >>

\* fn find() { let k = 0; while (true) { { if (k == 1) return k; } k = k + 1; } }
\* echo find();
\* fn boom() { let z = 1; { { echo z / 0; } } }
\* boom(); echo "unreached";
ProgUnwind == <<
    FunctionStmt("find", Fn(<<>>, <<
        LetStmt("k", N(0)),
        WhileStmt(LiteralExpr(Bool(TRUE)), BlockStmt(<<
            BlockStmt(<< IfStmt(BinaryExpr(V(1301, "k"), "==", N(1)),
                                ReturnStmt(V(1302, "k")), None) >>),
            ExpressionStmt(AssignExpr(1303, "k", BinaryExpr(V(1304, "k"), "+", N(1)))) >>)) >>)),
    EchoStmt(Call0(V(1305, "find"))),
    FunctionStmt("boom", Fn(<<>>, <<
        LetStmt("z", N(1)),
        BlockStmt(<< BlockStmt(<< EchoStmt(BinaryExpr(V(1306, "z"), "/", N(0))) >>) >>) >>)),
    ExpressionStmt(Call0(V(1307, "boom"))),
    EchoStmt(S("unreached")) >>

\* fn f() { let unused = 1; } f();
ProgUnused == <<
    FunctionStmt("f", Fn(<<>>, << LetStmt("unused", N(1)) >>)),
    ExpressionStmt(Call0(V(1401, "f"))) >>

\* echo "x"; break; echo "after";
ProgTopBreak == << EchoStmt(S("x")), BreakStmt, EchoStmt(S("after")) >>

\* echo "ok";
ProgOk == << EchoStmt(S("ok")) >>

\* 1 + 1;
ProgExpr == << ExpressionStmt(BinaryExpr(N(1), "+", N(1))) >>

\* for (let i = 0; i < 2; i = i + 1) {
\*   for (let j = 0; j < 2; j = j + 1) { if (j == 1) break; echo j; }
\*   echo "outer";
\* }
\* echo "done";
ProgNestedBreak == <<
    BlockStmt(<<
        LetStmt("i", N(0)),
        WhileStmt(BinaryExpr(V(1801, "i"), "<", N(2)), BlockStmt(<<
            BlockStmt(<<
                BlockStmt(<<
                    LetStmt("j", N(0)),
                    WhileStmt(BinaryExpr(V(1802, "j"), "<", N(2)), BlockStmt(<<
                        BlockStmt(<<
                            IfStmt(BinaryExpr(V(1803, "j"), "==", N(1)), BreakStmt, None),
                            EchoStmt(V(1804, "j")) >>),
                        ExpressionStmt(AssignExpr(1805, "j",
                                                  BinaryExpr(V(1806, "j"), "+", N(1)))) >>)) >>),
                EchoStmt(S("outer")) >>),
            ExpressionStmt(AssignExpr(1807, "i", BinaryExpr(V(1808, "i"), "+", N(1)))) >>)) >>),
    EchoStmt(S("done")) >>

\* fn f() { break; }
\* let n = 0;
\* while (n < 2) { n = n + 1; f(); echo "unreached"; }
\* echo n;
ProgBreakInCall == <<
    FunctionStmt("f", Fn(<<>>, << BreakStmt >>)),
    LetStmt("n", N(0)),
    WhileStmt(BinaryExpr(V(1901, "n"), "<", N(2)), BlockStmt(<<
        ExpressionStmt(AssignExpr(1902, "n", BinaryExpr(V(1903, "n"), "+", N(1)))),
        ExpressionStmt(Call0(V(1904, "f"))),
        EchoStmt(S("unreached")) >>)),
    EchoStmt(V(1905, "n")) >>

\* fn f() { echo "side"; return 7; }
\* echo nil or f(); echo 0 or f(); echo "x" and f(); echo nil and f();
\* echo false and f();
ProgShortCircuit == <<
    FunctionStmt("f", Fn(<<>>, << EchoStmt(S("side")), ReturnStmt(N(7)) >>)),
    EchoStmt(LogicalExpr(LiteralExpr(Nil), "or", Call0(V(2001, "f")))),
    EchoStmt(LogicalExpr(N(0), "or", Call0(V(2002, "f")))),
    EchoStmt(LogicalExpr(S("x"), "and", Call0(V(2003, "f")))),
    EchoStmt(LogicalExpr(LiteralExpr(Nil), "and", Call0(V(2004, "f")))),
    EchoStmt(LogicalExpr(LiteralExpr(Bool(FALSE)), "and", Call0(V(2005, "f")))) >>

\* echo 1; %
TextStrayCharacter == << "e", "c", "h", "o", " ", "1", ";", " ", "%" >>

\* echo 1;
\* "abc
TextUnterminatedString ==
    << "e", "c", "h", "o", " ", "1", ";", "\n", "\"", "a", "b", "c" >>

\* echo "abc
TextUnterminatedEcho == << "e", "c", "h", "o", " ", "\"", "a", "b", "c" >>

\* the messages of the errors a parser reported
Messages(errors) == [i \in 1..Len(errors) |-> errors[i].message]

\* A source given as text: Lox.run lexes and parses it.
SourceText(name, text) ==
    [name |-> name, text |-> text, syntaxErrors |-> <<>>, statements |-> <<>>]

\* class A { init(x) { echo "init"; } } class B < A {}
\* B(1); echo "x"; B(); echo "after";
ProgArityInherited == <<
    ClassStmt("A", None, << Method("init", <<"x">>, << EchoStmt(S("init")) >>) >>),
    ClassStmt("B", V(2401, "A"), <<>>),
    ExpressionStmt(CallExpr(V(2402, "B"), << N(1) >>)),
    EchoStmt(S("x")),
    ExpressionStmt(Call0(V(2403, "B"))),
    EchoStmt(S("after")) >>

\* class C {} C(); echo "x"; C(1); echo "after";
ProgArityNoInit == <<
    ClassStmt("C", None, <<>>),
    ExpressionStmt(Call0(V(2501, "C"))),
    EchoStmt(S("x")),
    ExpressionStmt(CallExpr(V(2502, "C"), << N(1) >>)),
    EchoStmt(S("after")) >>

\* class Base { hello() { return 1; } }
\* fn f(p, q) {
\*   let used = 1; let unused = 2; let assigned = 3; assigned = 4;
\*   fn localFn() {}
\*   class Local < Base { m() { super.hello(); return this; } }
\*   { let inner = 5; }
\*   echo used + p;
\* }
\* f(1, 2); echo "done";
ProgUnusedKinds == <<
    ClassStmt("Base", None, << Method("hello", <<>>, << ReturnStmt(N(1)) >>) >>),
    FunctionStmt("f", Fn(<<"p", "q">>, <<
        LetStmt("used", N(1)),
        LetStmt("unused", N(2)),
        LetStmt("assigned", N(3)),
        ExpressionStmt(AssignExpr(2601, "assigned", N(4))),
        FunctionStmt("localFn", Fn(<<>>, <<>>)),
        ClassStmt("Local", V(2602, "Base"), <<
            Method("m", <<>>, << ExpressionStmt(Call0(SuperExpr(2603, "hello"))),
                                 ReturnStmt(ThisExpr(2604)) >>) >>),
        BlockStmt(<< LetStmt("inner", N(5)) >>),
        EchoStmt(BinaryExpr(V(2605, "used"), "+", V(2606, "p"))) >>)),
    ExpressionStmt(CallExpr(V(2607, "f"), << N(1), N(2) >>)),
    EchoStmt(S("done")) >>

\* fn f() { return 1; }
\* return;
\* class A { init() { fn g() { return 1; } g(); return 2; } m() { return 3; } }
\* { return 4; }
ProgReturnsRejected == <<
    FunctionStmt("f", Fn(<<>>, << ReturnStmt(N(1)) >>)),
    ReturnStmt(None),
    ClassStmt("A", None, <<
        Method("init", <<>>, <<
            FunctionStmt("g", Fn(<<>>, << ReturnStmt(N(1)) >>)),
            ExpressionStmt(Call0(V(2701, "g"))),
            ReturnStmt(N(2)) >>),
        Method("m", <<>>, << ReturnStmt(N(3)) >>) >>),
    BlockStmt(<< ReturnStmt(N(4)) >>) >>

\* class A { init() { fn g() { return 1; } echo g(); return; echo "no"; }
\*           m() { while (true) { return 3; } } }
\* fn f() { if (true) { return; } echo "no"; }
\* echo A().m(); f(); echo "done";
ProgReturnsAccepted == <<
    ClassStmt("A", None, <<
        Method("init", <<>>, <<
            FunctionStmt("g", Fn(<<>>, << ReturnStmt(N(1)) >>)),
            EchoStmt(Call0(V(2801, "g"))),
            ReturnStmt(None),
            EchoStmt(S("no")) >>),
        Method("m", <<>>, <<
            WhileStmt(LiteralExpr(Bool(TRUE)), BlockStmt(<< ReturnStmt(N(3)) >>)) >>) >>),
    FunctionStmt("f", Fn(<<>>, <<
        IfStmt(LiteralExpr(Bool(TRUE)), BlockStmt(<< ReturnStmt(None) >>), None),
        EchoStmt(S("no")) >>)),
    EchoStmt(Call0(GetExpr(Call0(V(2802, "A")), "m"))),
    ExpressionStmt(Call0(V(2803, "f"))),
    EchoStmt(S("done")) >>

\* echo this;
\* fn f() { return super.m(); }
\* class A { m() { return super.m(); } }
\* class B < A { m() { class C { n() { return super.n(); } } return super.m(); } }
\* echo this;
ProgClassContextRejected == <<
    EchoStmt(ThisExpr(2901)),
    FunctionStmt("f", Fn(<<>>, << ReturnStmt(Call0(SuperExpr(2902, "m"))) >>)),
    ClassStmt("A", None, <<
        Method("m", <<>>, << ReturnStmt(Call0(SuperExpr(2903, "m"))) >>) >>),
    ClassStmt("B", V(2904, "A"), <<
        Method("m", <<>>, <<
            ClassStmt("C", None, <<
                Method("n", <<>>, << ReturnStmt(Call0(SuperExpr(2905, "n"))) >>) >>),
            ReturnStmt(Call0(SuperExpr(2906, "m"))) >>) >>),
    EchoStmt(ThisExpr(2907)) >>

\* class A { tag() { fn g() { return this; } return g(); } hi() { echo "A.hi"; } }
\* class B < A {
\*   hi() { class C { n() { return this; } }
\*          fn h() { super.hi(); } h(); echo "B.hi"; } }
\* B().hi(); B().tag(); echo "done";
ProgClassContextAccepted == <<
    ClassStmt("A", None, <<
        Method("tag", <<>>, <<
            FunctionStmt("g", Fn(<<>>, << ReturnStmt(ThisExpr(3001)) >>)),
            ReturnStmt(Call0(V(3002, "g"))) >>),
        Method("hi", <<>>, << EchoStmt(S("A.hi")) >>) >>),
    ClassStmt("B", V(3003, "A"), <<
        Method("hi", <<>>, <<
            ClassStmt("C", None, <<
                Method("n", <<>>, << ReturnStmt(ThisExpr(3004)) >>) >>),
            FunctionStmt("h", Fn(<<>>, <<
                ExpressionStmt(Call0(SuperExpr(3005, "hi"))) >>)),
            ExpressionStmt(Call0(V(3006, "h"))),
            EchoStmt(S("B.hi")) >>) >>),
    ExpressionStmt(Call0(GetExpr(Call0(V(3007, "B")), "hi"))),
    ExpressionStmt(Call0(GetExpr(Call0(V(3008, "B")), "tag"))),
    EchoStmt(S("done")) >>

\* { let NotClass = "no"; class X < NotClass { m() { return 1; } } echo "unreached"; }
ProgBadSuperclassLocal == <<
    BlockStmt(<<
        LetStmt("NotClass", S("no")),
        ClassStmt("X", V(3101, "NotClass"), <<
            Method("m", <<>>, << ReturnStmt(N(1)) >>) >>),
        EchoStmt(S("unreached")) >>) >>

\* A source given as the statements and syntax errors of its text, which is
\* not shown and is free of lexical errors.
\* fn t(x) { echo x; return x; }  fn pair(a, b) { return a + b; }
\* fn callee() { echo "callee"; return pair; }
\* class O {}  let o = O();  fn object() { echo "object"; return o; }
\* echo t(1) + t(2); echo callee()(t(3), t(4)); object().f = t(5); echo o.f;
\* echo t("a") < t(6);
ProgEvaluationOrder == <<
    FunctionStmt("t", Fn(<<"x">>, << EchoStmt(V(3201, "x")), ReturnStmt(V(3202, "x")) >>)),
    FunctionStmt("pair", Fn(<<"a", "b">>,
        << ReturnStmt(BinaryExpr(V(3203, "a"), "+", V(3204, "b"))) >>)),
    FunctionStmt("callee", Fn(<<>>, << EchoStmt(S("callee")), ReturnStmt(V(3205, "pair")) >>)),
    ClassStmt("O", None, <<>>),
    LetStmt("o", Call0(V(3206, "O"))),
    FunctionStmt("object", Fn(<<>>, << EchoStmt(S("object")), ReturnStmt(V(3207, "o")) >>)),
    EchoStmt(BinaryExpr(CallExpr(V(3208, "t"), << N(1) >>), "+",
                        CallExpr(V(3209, "t"), << N(2) >>))),
    EchoStmt(CallExpr(Call0(V(3210, "callee")),
                      << CallExpr(V(3211, "t"), << N(3) >>),
                         CallExpr(V(3212, "t"), << N(4) >>) >>)),
    ExpressionStmt(SetExpr(Call0(V(3213, "object")), "f", CallExpr(V(3214, "t"), << N(5) >>))),
    EchoStmt(GetExpr(V(3215, "o"), "f")),
    EchoStmt(BinaryExpr(CallExpr(V(3216, "t"), << S("a") >>), "<",
                        CallExpr(V(3217, "t"), << N(6) >>))) >>

\* fn t(x) { echo x; return x; }  t(1).f = t(2);
ProgSetOnNumber == <<
    FunctionStmt("t", Fn(<<"x">>, << EchoStmt(V(3301, "x")), ReturnStmt(V(3302, "x")) >>)),
    ExpressionStmt(SetExpr(CallExpr(V(3303, "t"), << N(1) >>), "f",
                           CallExpr(V(3304, "t"), << N(2) >>))) >>

\* fn inner() { let i = 0;
\*   while (true) { i = i + 1; { echo i; if (i == 2) { return i; } } echo "next"; }
\*   echo "no"; }
\* fn outer() { let x = inner(); echo "outer"; echo x; return; echo "no"; }
\* echo outer();
ProgReturnNested == <<
    FunctionStmt("inner", Fn(<<>>, <<
        LetStmt("i", N(0)),
        WhileStmt(LiteralExpr(Bool(TRUE)), BlockStmt(<<
            ExpressionStmt(AssignExpr(3401, "i", BinaryExpr(V(3402, "i"), "+", N(1)))),
            BlockStmt(<< EchoStmt(V(3403, "i")),
                         IfStmt(BinaryExpr(V(3404, "i"), "==", N(2)),
                                BlockStmt(<< ReturnStmt(V(3405, "i")) >>), None) >>),
            EchoStmt(S("next")) >>)),
        EchoStmt(S("no")) >>)),
    FunctionStmt("outer", Fn(<<>>, <<
        LetStmt("x", Call0(V(3406, "inner"))),
        EchoStmt(S("outer")),
        EchoStmt(V(3407, "x")),
        ReturnStmt(None),
        EchoStmt(S("no")) >>)),
    EchoStmt(Call0(V(3408, "outer"))) >>

\* class A { m() { echo "A.m"; } }  class B < A {}
\* class A < B { n() { echo "A.n"; } }
\* let a = A(); a.n(); a.m(); B().m(); a.nope();
ProgClassRedeclared == <<
    ClassStmt("A", None, << Method("m", <<>>, << EchoStmt(S("A.m")) >>) >>),
    ClassStmt("B", V(3501, "A"), <<>>),
    ClassStmt("A", V(3502, "B"), << Method("n", <<>>, << EchoStmt(S("A.n")) >>) >>),
    LetStmt("a", Call0(V(3503, "A"))),
    ExpressionStmt(Call0(GetExpr(V(3504, "a"), "n"))),
    ExpressionStmt(Call0(GetExpr(V(3505, "a"), "m"))),
    ExpressionStmt(Call0(GetExpr(Call0(V(3506, "B")), "m"))),
    ExpressionStmt(Call0(GetExpr(V(3507, "a"), "nope"))) >>

\* let a = "global";
\* { let a = "outer";
\*   { fn show() { echo a; }  fn put(v) { a = v; }
\*     show(); let a = "inner"; show(); put("changed"); show(); echo a; }
\*   echo a; }
\* { fn show() { echo a; } show(); let a = 2; show(); echo a; }
\* echo a;
ProgStaticScope == <<
    LetStmt("a", S("global")),
    BlockStmt(<<
        LetStmt("a", S("outer")),
        BlockStmt(<<
            FunctionStmt("show", Fn(<<>>, << EchoStmt(V(3601, "a")) >>)),
            FunctionStmt("put", Fn(<<"v">>,
                << ExpressionStmt(AssignExpr(3602, "a", V(3603, "v"))) >>)),
            ExpressionStmt(Call0(V(3604, "show"))),
            LetStmt("a", S("inner")),
            ExpressionStmt(Call0(V(3605, "show"))),
            ExpressionStmt(CallExpr(V(3606, "put"), << S("changed") >>)),
            ExpressionStmt(Call0(V(3607, "show"))),
            EchoStmt(V(3608, "a")) >>),
        EchoStmt(V(3609, "a")) >>),
    BlockStmt(<<
        FunctionStmt("show", Fn(<<>>, << EchoStmt(V(3610, "a")) >>)),
        ExpressionStmt(Call0(V(3611, "show"))),
        LetStmt("a", N(2)),
        ExpressionStmt(Call0(V(3612, "show"))),
        EchoStmt(V(3613, "a")) >>),
    EchoStmt(V(3614, "a")) >>

Source(name, syntaxErrors, stmts) ==
    [name |-> name, text |-> <<>>, syntaxErrors |-> syntaxErrors, statements |-> stmts]

Catalog == <<
    Source("break-then-error", <<>>, ProgBreakThenError),
    Source("counter", <<>>, ProgCounter),
    Source("super", <<>>, ProgSuper),
    Source("init", <<>>, ProgInit),
    Source("property", <<>>, ProgProperty),
    Source("self-read", <<>>, ProgSelfRead),
    Source("top-return", <<>>, ProgTopReturn),
    Source("syntax-error", << "Expected expression." >>, ProgSyntaxError),
    Source("len", <<>>, ProgLen),
    Source("expressions", <<>>, ProgExpressions),
    Source("arity", <<>>, ProgArity),
    Source("bad-superclass", <<>>, ProgBadSuperclass),
    Source("unwind", <<>>, ProgUnwind),
    Source("unused", <<>>, ProgUnused),
    Source("top-break", <<>>, ProgTopBreak),
    Source("ok", <<>>, ProgOk),
    Source("expr", <<>>, ProgExpr),
    Source("nested-break", <<>>, ProgNestedBreak),
    Source("break-in-call", <<>>, ProgBreakInCall),
    Source("short-circuit", <<>>, ProgShortCircuit),
    SourceText("stray-character", TextStrayCharacter),
    SourceText("unterminated-string", TextUnterminatedString),
    SourceText("unterminated-echo", TextUnterminatedEcho),
    Source("arity-inherited", <<>>, ProgArityInherited),
    Source("arity-no-init", <<>>, ProgArityNoInit),
    Source("unused-kinds", <<>>, ProgUnusedKinds),
    Source("returns-rejected", <<>>, ProgReturnsRejected),
    Source("returns-accepted", <<>>, ProgReturnsAccepted),
    Source("class-context-rejected", <<>>, ProgClassContextRejected),
    Source("class-context-accepted", <<>>, ProgClassContextAccepted),
    Source("bad-superclass-local", <<>>, ProgBadSuperclassLocal),
    Source("evaluation-order", <<>>, ProgEvaluationOrder),
    Source("set-on-number", <<>>, ProgSetOnNumber),
    Source("return-nested", <<>>, ProgReturnNested),
    Source("class-redeclared", <<>>, ProgClassRedeclared),
    Source("static-scope", <<>>, ProgStaticScope) >>

SourceNamed(name) == CHOOSE i \in 1..Len(Catalog) : Catalog[i].name = name

FileSources == 1..Len(Catalog)
ReplSources == {SourceNamed("ok"), SourceNamed("expr"), SourceNamed("syntax-error")}
LoadSources == {SourceNamed("ok"), SourceNamed("syntax-error")}

\* the prompts a REPL session answers
MaxTurns == 2

-----------------------------------------------------------------------------
(* Interpreter.interpret: the loop over the top-level statements.          *)

evalVars == <<heapVars, environment, output, locals, ctrl, kont, ip, repl, diagnostics>>

\* interpret(statements, { repl }) is entered
interpret ==
    /\ pc = "enter"
    /\ pc' = "interpret"
    /\ repl' = (runKind = "repl")
    /\ ip' = 0
    /\ ctrl' = Normal
    /\ kont' = <<>>
    /\ UNCHANGED <<runKind, hadError, hadRuntimeError, exitCode, src, statements, turns,
                   reports, warnings, console, lexer, parser, heapVars, diagnostics, output, locals, environment>>

\* for (const statement of statements) this.execute(statement)
interpret_next ==
    /\ Running /\ ctrl.m = "normal" /\ kont = <<>>
    /\ ip < Len(statements)
    /\ ip' = ip + 1
    /\ ctrl' = Exec(statements[ip + 1])
    /\ UNCHANGED <<driverVars, heapVars, diagnostics, output, repl, locals, environment, kont>>

\* the loop is over: interpret returns
interpret_return ==
    /\ Running /\ ctrl.m = "normal" /\ kont = <<>>
    /\ ip = Len(statements)
    /\ pc' = "returned"
    /\ ctrl' = Idle
    /\ UNCHANGED <<runKind, hadError, hadRuntimeError, exitCode, src, statements, turns,
                   reports, warnings, console, lexer, parser, heapVars, diagnostics, output, repl, locals,
                   environment, ip, kont>>

InterpretCatches == ctrl.error.k \in {"RuntimeError", "Break"}

\* catch (err): Lox.runtimeError(err) prints the message, sets hadRuntimeError
interpret_catch ==
    /\ Running /\ ctrl.m = "throw" /\ kont = <<>>
    /\ InterpretCatches
    /\ diagnostics' = Append(diagnostics, ctrl.error.message)
    /\ hadRuntimeError' = TRUE
    /\ pc' = "returned"
    /\ ctrl' = Idle
    /\ UNCHANGED <<runKind, hadError, exitCode, src, statements, turns, reports, warnings, console, lexer, parser,
                   heapVars, output, repl, locals, environment, ip, kont>>

\* catch (err): `else throw err`, which nothing above interpret catches
interpret_rethrow ==
    /\ Running /\ ctrl.m = "throw" /\ kont = <<>>
    /\ ~InterpretCatches
    /\ pc' = "exited"
    /\ exitCode' = 1
    /\ ctrl' = Idle
    /\ UNCHANGED <<runKind, hadError, hadRuntimeError, src, statements, turns, reports,
                   warnings, console, lexer, parser, heapVars, diagnostics, output, repl, locals, environment,
                   ip, kont>>

-----------------------------------------------------------------------------
(* The driver: main, Lox.file, Lox.repl, Lox.handleCommand, Lox.run.       *)

\* process.exit(code)
Exit(code) == pc' = "exited" /\ exitCode' = code

\* main: more than one argument
main_usage ==
    /\ pc = "main"
    /\ runKind' = "usage"
    /\ Exit(69)
    /\ UNCHANGED <<hadError, hadRuntimeError, src, statements, turns, reports,
                   warnings, console, lexer, parser, evalVars>>

\* main: one argument, Lox.file(path) reads the file and calls run
main_file ==
    /\ pc = "main"
    /\ \E s \in FileSources : src' = s
    /\ runKind' = "file"
    /\ pc' = "run"
    /\ UNCHANGED <<hadError, hadRuntimeError, exitCode, statements, turns, reports,
                   warnings, console, lexer, parser, evalVars>>

\* main: no argument, Lox.repl()
main_repl ==
    /\ pc = "main"
    /\ pc' = "prompt"
    /\ UNCHANGED <<runKind, hadError, hadRuntimeError, exitCode, src, statements, turns,
                   reports, warnings, console, lexer, parser, evalVars>>

\* A faulty variant of Gate: `if (this.hadError) return` is missing.
GateOpen(failed, stage) == stage

\* Lox.run: the gate after a stage
Gate(failed, stage) == IF failed THEN "returned" ELSE stage

\* Lox.run: new Lexer(source).lex(), new Parser(tokens).parse()
Lox_run ==
    /\ pc = "run"
    /\ LET source == Catalog[src]
           parsed == IF source.text = <<>> THEN source
                     ELSE [syntaxErrors |-> Messages(parser'.errors),
                           statements   |-> parser'.statements]
           failed == hadError \/ parsed.syntaxErrors # <<>>
       IN  /\ lexer' = lex(source.text)
           /\ parser' = parse(lexer'.tokens)
           /\ console' = console \o lexer'.console
           /\ statements' = parsed.statements
           /\ reports' = reports \o parsed.syntaxErrors
           /\ hadError' = failed
           /\ pc' = Gate(failed, "resolve")
    /\ UNCHANGED <<runKind, hadRuntimeError, exitCode, src, turns, warnings, evalVars>>

\* Lox.run: new Resolver(this.interpreter).resolve(statements)
Lox_run_resolve ==
    /\ pc = "resolve"
    /\ LET rs     == resolve(locals, statements)
           failed == hadError \/ rs.errors # <<>>
       IN  /\ locals' = rs.locals
           /\ reports' = reports \o rs.errors
           /\ warnings' = warnings \o rs.warnings
           /\ hadError' = failed
           /\ pc' = Gate(failed, "enter")
    /\ UNCHANGED <<runKind, hadRuntimeError, exitCode, src, statements, turns, console, lexer, parser,
                   heapVars, environment, output, ctrl, kont, ip, repl, diagnostics>>

\* Lox.file after run: exit 65, exit 70, or fall off the end
Lox_file ==
    /\ pc = "returned" /\ runKind = "file"
    /\ Exit(IF hadError THEN 65 ELSE IF hadRuntimeError THEN 70 ELSE 0)
    /\ UNCHANGED <<runKind, hadError, hadRuntimeError, src, statements, turns, reports,
                   warnings, console, lexer, parser, evalVars>>

Prompting == pc = "prompt" /\ turns < MaxTurns

\* Lox.repl: an input that is not a command goes to run(input, true)
Lox_repl_input ==
    /\ Prompting
    /\ \E s \in ReplSources : src' = s
    /\ runKind' = "repl"
    /\ turns' = turns + 1
    /\ pc' = "run"
    /\ UNCHANGED <<hadError, hadRuntimeError, exitCode, statements, reports, warnings, console, lexer, parser,
                   evalVars>>

\* Lox.repl after run(input, true): this.hadError = false
Lox_repl_reset ==
    /\ pc = "returned" /\ runKind = "repl"
    /\ hadError' = FALSE
    /\ pc' = "prompt"
    /\ UNCHANGED <<runKind, hadRuntimeError, exitCode, src, statements, turns, reports,
                   warnings, console, lexer, parser, evalVars>>

\* Lox.repl: empty input, or a command that runs no source
Lox_repl_continue ==
    /\ Prompting
    /\ turns' = turns + 1
    /\ UNCHANGED <<pc, runKind, hadError, hadRuntimeError, exitCode, src, statements,
                   reports, warnings, console, lexer, parser, evalVars>>

\* handleCommand: .exit
handleCommand_exit ==
    /\ Prompting
    /\ Exit(0)
    /\ UNCHANGED <<runKind, hadError, hadRuntimeError, src, statements, turns, reports,
                   warnings, console, lexer, parser, evalVars>>

\* handleCommand: .load path reads the file and calls this.run(source)
handleCommand_load ==
    /\ Prompting
    /\ \E s \in LoadSources : src' = s
    /\ runKind' = "load"
    /\ turns' = turns + 1
    /\ pc' = "run"
    /\ UNCHANGED <<hadError, hadRuntimeError, exitCode, statements, reports, warnings, console, lexer, parser,
                   evalVars>>

\* handleCommand: .load after run, then `continue` in Lox.repl
handleCommand_loaded ==
    /\ pc = "returned" /\ runKind = "load"
    /\ pc' = "prompt"
    /\ UNCHANGED <<runKind, hadError, hadRuntimeError, exitCode, src, statements, turns,
                   reports, warnings, console, lexer, parser, evalVars>>

-----------------------------------------------------------------------------

Init ==
    /\ pc = "main"
    /\ runKind = "none"
    /\ hadError = FALSE
    /\ hadRuntimeError = FALSE
    /\ exitCode = -1
    /\ src = 0
    /\ statements = <<>>
    /\ turns = 0
    /\ reports = <<>>
    /\ warnings = <<>>
    /\ console = <<>>
    /\ lexer = None
    /\ parser = None
    /\ diagnostics = <<>>
    /\ output = <<>>
    /\ repl = FALSE
    /\ locals = EmptyMap
    /\ environment = globals
    /\ envs = << [values |-> GlobalNatives, enclosing |-> 0] >>
    /\ functions = <<>>
    /\ classes = <<>>
    /\ instances = <<>>
    /\ ip = 0
    /\ ctrl = Idle
    /\ kont = <<>>

Next ==
    \/ main_usage \/ main_file \/ main_repl
    \/ Lox_run \/ Lox_run_resolve \/ Lox_file
    \/ Lox_repl_input \/ Lox_repl_reset \/ Lox_repl_continue
    \/ handleCommand_exit \/ handleCommand_load \/ handleCommand_loaded
    \/ interpret \/ interpret_next \/ interpret_return
    \/ interpret_catch \/ interpret_rethrow
    \/ visitBlockStmt \/ executeBlock_next \/ executeBlock_return \/ executeBlock_unwind
    \/ visitExpressionStmt \/ visitExpressionStmt_value
    \/ visitEchoStmt \/ visitEchoStmt_value
    \/ visitLetStmt \/ visitLetStmt_value
    \/ visitIfStmt \/ visitIfStmt_value
    \/ visitWhileStmt \/ visitWhileStmt_condition \/ visitWhileStmt_body
    \/ visitWhileStmt_catch
    \/ visitBreakStmt \/ visitReturnStmt \/ visitReturnStmt_value
    \/ visitFunctionStmt \/ visitClassStmt \/ visitClassStmt_superclass
    \/ visitLiteralExpr \/ visitGroupingExpr \/ visitVariableExpr \/ visitThisExpr
    \/ visitFunctionExpr \/ visitAssignExpr \/ visitAssignExpr_value
    \/ visitUnaryExpr \/ visitUnaryExpr_value
    \/ visitBinaryExpr \/ visitBinaryExpr_left \/ visitBinaryExpr_right
    \/ visitLogicalExpr \/ visitLogicalExpr_left
    \/ visitConditionalExpr \/ visitConditionalExpr_condition
    \/ visitGetExpr \/ visitGetExpr_object
    \/ visitSetExpr \/ visitSetExpr_object \/ visitSetExpr_value
    \/ visitSuperExpr
    \/ visitCallExpr \/ visitCallExpr_callee \/ visitCallExpr_arg \/ visitCallExpr_reject
    \/ LoxFunction_call \/ LoxFunction_call_end \/ LoxFunction_call_catch
    \/ LoxClass_call \/ LoxClass_call_end
    \/ LoxClockFn_call \/ LoxLenFn_call \/ LoxTypeFn_call
    \/ Propagate

Spec == Init /\ [][Next]_vars

-----------------------------------------------------------------------------
(* The lexer on its own: Lexer.lex on every source of up to               *)
(* MaxSourceLength characters of LexerAlphabet and on the texts above,    *)
(* one turn of its loop at a time.                                        *)

MaxSourceLength == 3

LexerAlphabet == {"\"", "'", "%", "a", "1", ".", "/", "\n", "="}

RECURSIVE SourcesOf(_)
SourcesOf(n) ==
    IF n = 0 THEN {<<>>}
    ELSE LET shorter == SourcesOf(n - 1)
         IN  shorter \cup {Append(s, c) : s \in shorter, c \in LexerAlphabet}

LexerSources ==
    SourcesOf(MaxSourceLength)
        \cup {TextStrayCharacter, TextUnterminatedString, TextUnterminatedEcho}

\* the state of the program but for pc, lexer and parser
Fresh ==
    /\ runKind = "none"
    /\ hadError = FALSE
    /\ hadRuntimeError = FALSE
    /\ exitCode = -1
    /\ src = 0
    /\ statements = <<>>
    /\ turns = 0
    /\ reports = <<>>
    /\ warnings = <<>>
    /\ diagnostics = <<>>
    /\ output = <<>>
    /\ repl = FALSE
    /\ locals = EmptyMap
    /\ environment = globals
    /\ envs = << [values |-> GlobalNatives, enclosing |-> 0] >>
    /\ functions = <<>>
    /\ classes = <<>>
    /\ instances = <<>>
    /\ ip = 0
    /\ ctrl = Idle
    /\ kont = <<>>

\* new Lexer(source)
LexerInit ==
    /\ pc = "lex"
    /\ lexer \in {NewLexer(source) : source \in LexerSources}
    /\ parser = None
    /\ console = <<>>
    /\ Fresh

\* Lexer.lex: while (!this.isAtEnd()) { this.start = this.cursor; this.scan() }
Lexer_lex_turn ==
    /\ pc = "lex"
    /\ ~isAtEnd(lexer.source, lexer)
    /\ lexer' = lexTurn(lexer)
    /\ console' = lexer'.console
    /\ UNCHANGED <<pc, runKind, hadError, hadRuntimeError, exitCode, src, statements,
                   turns, reports, warnings, parser, evalVars>>

\* Lexer.lex: this.tokens.push(new Token(TokenType.EOF, ...)); return this.tokens
Lexer_lex_return ==
    /\ pc = "lex"
    /\ isAtEnd(lexer.source, lexer)
    /\ lexer' = lexEnd(lexer)
    /\ pc' = "lexed"
    /\ UNCHANGED <<runKind, hadError, hadRuntimeError, exitCode, src, statements,
                   turns, reports, warnings, console, parser, evalVars>>

LexerNext == Lexer_lex_turn \/ Lexer_lex_return

LexerSpec == LexerInit /\ [][LexerNext]_vars

-----------------------------------------------------------------------------
(* The parser on its own: Parser.parse on the tokens of every text of up  *)
(* to MaxTokens words of ParserWords and of the texts below, one turn of  *)
(* its loop at a time.                                                    *)

MaxTokens == 4

ParserWords ==
    { << "e", "c", "h", "o" >>, << "l", "e", "t" >>, << "1" >>, << "a" >>, << "=" >>,
      << "." >>, << ")" >>, << ";" >> }

\* the texts of up to n words, a blank before each word
RECURSIVE TextsOf(_)
TextsOf(n) ==
    IF n = 0 THEN {<<>>}
    ELSE LET shorter == TextsOf(n - 1)
         IN  shorter \cup {t \o << " " >> \o w : t \in shorter, w \in ParserWords}

\* echo 1 echo 2;
TextMissingSemicolon ==
    << "e", "c", "h", "o", " ", "1", " ", "e", "c", "h", "o", " ", "2", ";" >>

\* 1 = 2; echo 3;
TextInvalidTarget ==
    << "1", " ", "=", " ", "2", ";", " ", "e", "c", "h", "o", " ", "3", ";" >>

\* a.b = c; x = 1;
TextAssignments ==
    << "a", ".", "b", " ", "=", " ", "c", ";", " ", "x", " ", "=", " ", "1", ";" >>

\* a ? b : c ? d : e;
TextTernaryChain ==
    << "a", " ", "?", " ", "b", " ", ":", " ", "c", " ", "?", " ", "d", " ", ":", " ",
       "e", ";" >>

\* a ? b : c and d;
TextTernaryAnd ==
    << "a", " ", "?", " ", "b", " ", ":", " ", "c", " ", "a", "n", "d", " ", "d",
       ";" >>

\* echo ; ) echo 2; let = 3; echo "s";
TextManyErrors ==
    << "e", "c", "h", "o", " ", ";", " ", ")", " ", "e", "c", "h", "o", " ", "2", ";",
       " ", "l", "e", "t", " ", "=", " ", "3", ";", " ", "e", "c", "h", "o", " ",
       "\"", "s", "\"", ";" >>

\* class class A {} echo 1;
TextClassClass ==
    << "c", "l", "a", "s", "s", " ", "c", "l", "a", "s", "s", " ", "A", " ", "{", "}",
       " ", "e", "c", "h", "o", " ", "1", ";" >>

ParserTexts ==
    TextsOf(MaxTokens)
        \cup {TextMissingSemicolon, TextInvalidTarget, TextAssignments, TextTernaryChain,
              TextTernaryAnd, TextManyErrors, TextClassClass}

\* new Parser(new Lexer(source).lex())
ParserInit ==
    /\ pc = "parse"
    /\ lexer \in {lex(text) : text \in ParserTexts}
    /\ parser = NewParser(lexer.tokens)
    /\ console = lexer.console
    /\ Fresh

\* the errors a step of the parser has added
Reported(before, after) ==
    SubSeq(after.errors, Len(before.errors) + 1, Len(after.errors))

\* Parser.parse: one turn of while (!this.eof()) { try ... catch ... }
Parser_parse_turn ==
    /\ pc = "parse"
    /\ ~eof(parser)
    /\ parser' = parseTurn(parser)
    /\ reports' = reports \o Messages(Reported(parser, parser'))
    /\ hadError' = (hadError \/ Reported(parser, parser') # <<>>)
    /\ UNCHANGED <<pc, runKind, hadRuntimeError, exitCode, src, statements, turns,
                   warnings, console, lexer, evalVars>>

\* Parser.parse: return statements
Parser_parse_return ==
    /\ pc = "parse"
    /\ eof(parser)
    /\ statements' = parser.statements
    /\ pc' = "parsed"
    /\ UNCHANGED <<runKind, hadError, hadRuntimeError, exitCode, src, turns, reports,
                   warnings, console, lexer, parser, evalVars>>

ParserNext == Parser_parse_turn \/ Parser_parse_return

ParserSpec == ParserInit /\ [][ParserNext]_vars

-----------------------------------------------------------------------------
(* Properties.                                                             *)

Exited(name) == pc = "exited" /\ runKind = "file" /\ src = SourceNamed(name)

\* C1: a runtime error in a top-level statement abandons only that statement:
\* when interpret returns, every top-level statement of the program has been
\* executed (ip counts the statements the loop started).
C1_LaterStatementsExecute ==
    (pc = "returned" /\ ~hadError) => ip = Len(statements)

\* the environment executeBlock made current, innermost first; globals if none
RECURSIVE BlockEnvironment(_)
BlockEnvironment(K) ==
    IF Len(K) = 0 THEN globals
    ELSE IF K[Len(K)].f = "executeBlock" THEN K[Len(K)].environment
    ELSE BlockEnvironment(SubSeq(K, 1, Len(K) - 1))

\* C2: the current environment is the one of the innermost block or call
\* body still being executed, and globals when there is none: a statement or
\* expression that is over, normally or by a thrown RuntimeError, Return or
\* Break, has left the environment as it found it, and each top-level
\* statement starts in globals.
C2_EnvironmentRestored == environment = BlockEnvironment(kont)

\* a runtime error has unwound a call and two nested blocks, a Return a loop
C2_Witness ==
    /\ Running /\ ctrl.m = "throw" /\ ctrl.error.k = "RuntimeError" /\ kont = <<>>
    /\ src = SourceNamed("unwind") /\ output = << "1" >>
    /\ environment = globals

BindingAt(e, d, name) ==
    LET a == Ancestor(envs, e, d) IN a # 0 /\ name \in DOMAIN envs[a].values

\* C3: whenever a Variable, This, Super or Assign expression with a recorded
\* depth d is evaluated, the environment d hops outward from the current
\* one binds its name (for super: `super` at d and `this` at d - 1).
C3_ResolvedBindingPresent ==
    /\ (Running /\ ctrl.m = "eval" /\ ctrl.node.k \in {"Variable", "This", "Super"}
                /\ ctrl.node.id \in DOMAIN locals)
        => CASE ctrl.node.k = "Variable" ->
                    BindingAt(environment, locals[ctrl.node.id], ctrl.node.name)
             [] ctrl.node.k = "This" ->
                    BindingAt(environment, locals[ctrl.node.id], "this")
             [] ctrl.node.k = "Super" ->
                    /\ BindingAt(environment, locals[ctrl.node.id], "super")
                    /\ BindingAt(environment, locals[ctrl.node.id] - 1, "this")
    /\ (Resume("Assign") /\ Top.expr.id \in DOMAIN locals)
        => BindingAt(environment, locals[Top.expr.id], Top.expr.name)

\* C4: the stages of Lox.run are gated: once hadError is set the resolver and
\* the interpreter are not entered, and no step produces output or executes
\* a statement while it is set.
C4_StagesGated ==
    /\ [](hadError => pc \notin {"resolve", "enter", "interpret"})
    /\ [][hadError' => (output' = output /\ ip' = ip)]_vars

\* a file with an error has been run: statements were parsed, none executed
C4_Witness ==
    /\ pc = "returned" /\ runKind = "file" /\ hadError
    /\ Len(statements) > 0 /\ output = <<>>

\* C5: the exit status is 69 for more than one argument and, in file mode,
\* 65 if an error was reported, else 70 if a runtime error occurred, else 0.
C5_ExitCodes ==
    pc = "exited" =>
        CASE runKind = "usage" -> exitCode = 69 /\ statements = <<>> /\ output = <<>>
          [] runKind = "file" ->
                exitCode = IF hadError THEN 65 ELSE IF hadRuntimeError THEN 70 ELSE 0
          [] OTHER -> TRUE

\* C6: hadError is false every time the REPL prompt reads an input.
C6_PromptStartsClean == pc = "prompt" => ~hadError

\* C7: the Environment of a call of a user function is new and encloses the
\* closure of the function; the counters of makeCounter count 1, 2, 3 on one
\* closure and independently on another.
C7_CallEnvironmentEnclosesClosure ==
    /\ \A i \in 1..(Len(kont) - 1) :
          (kont[i].f = "LoxFunction.call" /\ kont[i + 1].f = "executeBlock")
              => envs[kont[i + 1].environment].enclosing = functions[kont[i].fn].closure
    /\ (/\ Running /\ ctrl.m = "normal" /\ Len(kont) >= 2
        /\ Top.f = "executeBlock" /\ Top.i = 0
        /\ kont[Len(kont) - 1].f = "LoxFunction.call")
          => /\ Top.environment = Len(envs)
             /\ \A e \in 1..Len(envs) : envs[e].enclosing # Top.environment
             /\ \A f \in 1..Len(functions) : functions[f].closure # Top.environment
    /\ Exited("counter") => output = << "1", "2", "1", "3" >>

C7_Witness == Exited("counter") /\ output = << "1", "2", "1", "3" >>

\* C8: the methods of a class with a superclass are closed over an
\* environment whose `super` is that superclass, and `super.m` in a method
\* of B < A, called on an instance of C < B, runs A's m on that instance;
\* a method the superclass chain lacks is a runtime error.
C8_SuperIsLexical ==
    /\ \A c \in 1..Len(classes) :
          classes[c].superclass # 0 =>
              \A n \in DOMAIN classes[c].methods :
                  LET e == functions[classes[c].methods[n]].closure
                  IN  /\ "super" \in DOMAIN envs[e].values
                      /\ envs[e].values["super"] = ClassVal(classes[c].superclass)
    /\ Exited("super") =>
          /\ output = << "A.m", "c", "C.m" >>
          /\ diagnostics = << "Undefined property 'nope'." >>

C8_Witness ==
    /\ Exited("super")
    /\ output = << "A.m", "c", "C.m" >>
    /\ diagnostics = << "Undefined property 'nope'." >>

\* C9: a call of an initializer that returns, at the end of its body or by
\* a Return, yields the `this` of its closure; a call of a class yields the
\* instance it created.
C9_InitializerYieldsInstance ==
    /\ [][(/\ Running /\ Len(kont) > 0 /\ Top.f = "LoxFunction.call"
           /\ functions[Top.fn].isInitializer
           /\ ctrl'.m = "value" /\ kont' = Rest)
            => ctrl'.v = envs[functions[Top.fn].closure].values["this"]]_vars
    /\ [][(/\ Running /\ Len(kont) > 0 /\ Top.f = "LoxClass.call"
           /\ ctrl'.m = "value" /\ kont' = Rest)
            => ctrl'.v = InstVal(Top.instance)]_vars
    /\ [][(Running /\ ctrl.m = "invoke" /\ Top.callee.t = "class" /\ ctrl'.m = "value")
            => (ctrl'.v = InstVal(Len(instances')) /\ Len(instances') = Len(instances) + 1)]_vars
    /\ [](Exited("init") => output = << "42", "object", "true", "7", "true" >>)

C9_Witness == Exited("init") /\ output = << "42", "object", "true", "7", "true" >>

\* the classes from c up its superclass chain, nearest first
RECURSIVE ClassChain(_)
ClassChain(c) == IF c = 0 THEN <<>> ELSE <<c>> \o ClassChain(classes[c].superclass)

PropertyNames ==
    UNION {DOMAIN classes[c].methods : c \in 1..Len(classes)}
        \cup UNION {DOMAIN instances[i].fields : i \in 1..Len(instances)}
        \cup {"zip"}

\* C10: for every instance and name, get yields the field if there is one;
\* else the method of the nearest class of the chain that has one, bound to
\* the instance; else a runtime error.
C10_PropertyOrder ==
    /\ \A i \in 1..Len(instances) : \A n \in PropertyNames :
          LET r        == LoxInstanceGet(envs, functions, classes, instances, i, n)
              chain    == ClassChain(instances[i].klass)
              definers == {j \in 1..Len(chain) : n \in DOMAIN classes[chain[j]].methods}
              nearest  == chain[CHOOSE j \in definers : \A k \in definers : j <= k]
          IN  IF n \in DOMAIN instances[i].fields
              THEN r.kind = "field" /\ r.value = instances[i].fields[n]
              ELSE IF definers # {}
              THEN /\ r.kind = "method"
                   /\ LET bound == r.bound.functions[r.bound.fn]
                      IN  /\ bound.declaration =
                                 functions[classes[nearest].methods[n]].declaration
                          /\ r.bound.envs[bound.closure].values["this"] = InstVal(i)
              ELSE r.kind = "error"
    /\ Exited("property") =>
          /\ output = << "B.m", "A.n", "field" >>
          /\ diagnostics = << "'B' has no property 'zip'." >>

\* an instance has a field that hides a method of an ancestor class
C10_Witness ==
    /\ Exited("property")
    /\ \E i \in 1..Len(instances) :
          /\ "n" \in DOMAIN instances[i].fields
          /\ findMethod(classes, instances[i].klass, "n") # 0
    /\ output = << "B.m", "A.n", "field" >>

\* C11: a thrown Break leaves every frame up to the innermost loop whose
\* body is running without executing anything, and that loop ends there: its
\* frame is left with a normal completion, so neither the rest of the body
\* (a desugared increment included) nor the condition is evaluated again,
\* and the frames of the outer loops stay as they are.
C11_BreakEndsInnermostLoop ==
    /\ [][(Running /\ ctrl.m = "throw" /\ ctrl.error.k = "Break" /\ Len(kont) > 0)
            => /\ kont' = Rest
               /\ output' = output /\ envs' = envs
               /\ IF Top.f = "While" /\ Top.phase = "body"
                  THEN ctrl' = Normal
                  ELSE ctrl' = ctrl]_vars
    /\ [](Exited("nested-break") => output = << "0", "outer", "0", "outer", "done" >>)

C11_Witness ==
    Exited("nested-break") /\ output = << "0", "outer", "0", "outer", "done" >>

\* C12: a program whose only `break` has no loop around it in its own
\* function body (at top level, or in a function called from a loop body)
\* ends with the runtime error "Break statement used outside of loop."
\* reported and hadRuntimeError set.
C12_BreakOutsideLoopIsError ==
    (pc = "returned" /\ runKind = "file"
        /\ src \in {SourceNamed("top-break"), SourceNamed("break-in-call")})
      => /\ hadRuntimeError
         /\ diagnostics = << "Break statement used outside of loop." >>

\* C13: once the left operand of `or` / `and` is known, a truthy left of
\* `or` and a falsy left of `and` (nil or false) are the result as they are,
\* with the right operand never evaluated; otherwise the right operand is
\* evaluated in the place of the whole expression, so its value is the result.
C13_ShortCircuit ==
    /\ [][(Running /\ ctrl.m = "value" /\ Len(kont) > 0 /\ Top.f = "Logical")
            => LET falsy == ctrl.v = Nil \/ ctrl.v = Bool(FALSE)
               IN  /\ kont' = Rest
                   /\ UNCHANGED <<heapVars, environment, output>>
                   /\ IF (Top.expr.operator = "or") = ~falsy
                      THEN ctrl' = Value(ctrl.v)
                      ELSE ctrl' = Eval(Top.expr.right)]_vars
    /\ [](Exited("short-circuit") =>
            output = << "side", "7", "0", "side", "7", "nil", "false" >>)

C13_Witness ==
    Exited("short-circuit") /\ output = << "side", "7", "0", "side", "7", "nil", "false" >>

\* the lexer printed a complaint about the text of source s
LexicalError(s) == lex(Catalog[s].text).console # <<>>

\* C14: once Lox.run has lexed and parsed a file whose text holds an
\* unexpected character or an unterminated string, hadError is set, the run
\* goes no further (nothing is resolved or interpreted, nothing is echoed),
\* and the process exits with code 65.
C14_LexicalErrorStops ==
    (runKind = "file" /\ pc \notin {"main", "run"} /\ LexicalError(src))
        => /\ hadError
           /\ pc \in {"returned", "exited"}
           /\ output = <<>>
           /\ pc = "exited" => exitCode = 65

\* C15: `len` of a value that is not a string raises a Lox runtime error:
\* nothing thrown is a host exception, and the file `echo len("ab");
\* echo len(1); echo "after";` ends with hadRuntimeError set and exit code 70.
C15_LenRaisesRuntimeError ==
    /\ (Running /\ ctrl.m = "throw") => ctrl.error.k # "HostError"
    /\ Exited("len") => /\ hadRuntimeError
                        /\ exitCode = 70
                        /\ output = << "2" >>

\* C16: a call of a callable with a number of arguments other than its arity
\* throws "Expected N arguments but got M." and nothing else happens: no
\* object is created, nothing is echoed, the environment stays.  The arity of
\* a class is that of the `init` found by method lookup, inherited ones
\* included, and 0 without one.
C16_ArityCheckedFirst ==
    /\ [][(Invoking /\ IsCallable(Top.callee) /\ Len(Top.args) # Arity(Top.callee))
            => /\ ctrl' = Throw(RuntimeError("Expected " \o ToString(Arity(Top.callee))
                                             \o " arguments but got "
                                             \o ToString(Len(Top.args)) \o "."))
               /\ kont' = Rest
               /\ UNCHANGED <<heapVars, environment, output>>]_vars
    /\ [](Exited("arity") =>
            /\ diagnostics = << "Expected 1 arguments but got 0." >>
            /\ output = << "x" >>)
    /\ [](Exited("arity-inherited") =>
            /\ diagnostics = << "Expected 1 arguments but got 0." >>
            /\ output = << "init", "x" >>
            /\ Len(instances) = 1)
    /\ [](Exited("arity-no-init") =>
            /\ diagnostics = << "Expected 0 arguments but got 1." >>
            /\ output = << "x" >>
            /\ Len(instances) = 1)

C16_Witness ==
    /\ Exited("arity-inherited")
    /\ diagnostics = << "Expected 1 arguments but got 0." >>
    /\ output = << "init", "x" >> /\ Len(instances) = 1 /\ exitCode = 70

\* the resolver has finished with the file `name` and let it pass
Resolved(name) ==
    /\ runKind = "file" /\ src = SourceNamed(name)
    /\ pc \in {"enter", "interpret", "returned", "exited"}

AfterResolve(name) ==
    runKind = "file" /\ src = SourceNamed(name) /\ pc \notin {"main", "run", "resolve"}

\* C18: the resolver reports "Cannot return from top-level code." for each
\* `return` outside every function, also after a function declaration and
\* inside a block, and "Cannot return a value from an initializer." for a
\* `return <value>` directly in `init`, also after a nested function; it
\* reports nothing for returns in functions and methods, for a bare return
\* in `init` and for a value returned by a function nested in `init`.
C18_ReturnPlacement ==
    /\ AfterResolve("returns-rejected") =>
          /\ reports = << "Cannot return from top-level code.",
                          "Cannot return a value from an initializer.",
                          "Cannot return from top-level code." >>
          /\ hadError /\ output = <<>>
    /\ AfterResolve("returns-accepted") =>
          /\ reports = <<>> /\ ~hadError /\ ~hadRuntimeError
          /\ pc = "exited" => output = << "1", "3", "done" >>
    /\ AfterResolve("top-return") =>
          reports = << "Cannot return from top-level code." >> /\ output = <<>>

C18_Witness ==
    /\ AfterResolve("returns-rejected") /\ hadError
    /\ reports = << "Cannot return from top-level code.",
                    "Cannot return a value from an initializer.",
                    "Cannot return from top-level code." >>

\* C19: the resolver reports `this` and `super` outside every class, also
\* in a function and after a class has ended, and `super` in a class without
\* superclass, also when that class is nested in a subclass; it reports
\* nothing for `this` and `super` inside a class and inside functions nested
\* in its methods, nor for `super` in a subclass after a nested class ended.
C19_ClassContext ==
    /\ AfterResolve("class-context-rejected") =>
          /\ reports = << "Cannot use 'this' outside of a class.",
                          "Cannot use 'super' outside of a class.",
                          "Cannot use 'super' in a class with no superclas.",
                          "Cannot use 'super' in a class with no superclas.",
                          "Cannot use 'this' outside of a class." >>
          /\ hadError /\ output = <<>>
    /\ AfterResolve("class-context-accepted") =>
          /\ reports = <<>> /\ ~hadError /\ ~hadRuntimeError
          /\ pc = "exited" => output = << "A.hi", "B.hi", "done" >> /\ exitCode = 0

C19_Witness ==
    /\ AfterResolve("class-context-rejected") /\ hadError /\ Len(reports) = 5
    /\ reports[4] = "Cannot use 'super' in a class with no superclas."
    /\ reports[5] = "Cannot use 'this' outside of a class."

\* C20: the read of `a` inside the function expression of a's own
\* initializer, in `{ let a = fn() { return a; }(); echo a; }`, is reported
\* as "Cannot read local variable in its own initializer." and sets
\* hadError, so the file is not interpreted.
C20_SelfReadReported ==
    AfterResolve("self-read") =>
        /\ hadError
        /\ \E i \in 1..Len(reports) :
              reports[i] = "Cannot read local variable in its own initializer."
        /\ pc \in {"returned", "exited"}

\* some environment binds `name`
Bound(name) == \E e \in 1..Len(envs) : name \in DOMAIN envs[e].values

\* C21: when the superclass expression of a class declaration has yielded a
\* value that is not a class, "Superclass must be a class." is thrown and
\* nothing else changes: no environment, function or class is created or
\* written and the current environment stays.  After a file that declares
\* `class X < NotClass` no environment binds `X` or `super`.
C21_SuperclassMustBeClass ==
    /\ [][(Running /\ ctrl.m = "value" /\ Len(kont) > 0 /\ Top.f = "Class"
                   /\ ctrl.v.t # "class")
            => /\ ctrl' = Throw(RuntimeError("Superclass must be a class."))
               /\ kont' = Rest
               /\ UNCHANGED <<heapVars, environment, output>>]_vars
    /\ [](\A name \in {"bad-superclass", "bad-superclass-local"} :
            (runKind = "file" /\ src = SourceNamed(name))
               => /\ ~Bound("X") /\ ~Bound("super") /\ classes = <<>>
                  /\ pc = "exited" =>
                        /\ diagnostics = << "Superclass must be a class." >>
                        /\ environment = globals /\ exitCode = 70)

C21_Witness ==
    /\ Exited("bad-superclass-local") /\ Bound("NotClass") /\ ~Bound("X")
    /\ diagnostics = << "Superclass must be a class." >>


-----------------------------------------------------------------------------
(* The parser (ParserSpec).                                                *)

\* a turn of parse has ended in the catch: no statement was pushed
Caught == pc = "parse" /\ parser' # parser /\ parser'.statements = parser.statements

\* the positions (from 1) of the tokens synchronize has skipped: from the
\* token the ParseError was raised at to the last token consumed
SkippedTokens ==
    LET raised == parser'.errors[Len(parser'.errors)].token
    IN  raised..parser'.current

\* C22: every turn of parse consumes a token, so parse terminates; a turn
\* that ends in a syntax error skips tokens only until a `;` has just been
\* skipped or the next token is one of class, echo, fn, for, if, let, while,
\* return: no token that starts a statement is skipped and none is skipped
\* after a skipped `;`, so the statement that follows is parsed.
C22_SynchronizesToBoundary ==
    /\ [][(pc = "parse" /\ parser' # parser) => parser'.current > parser.current]_vars
    /\ [][Caught =>
            \A i \in SkippedTokens :
                /\ parser.tokens[i].type \notin StatementStart
                /\ i - 1 \in SkippedTokens => parser.tokens[i - 1].type # "SEMICOLON"]_vars

\* the statement a turn of parse has pushed
Pushed == parser'.statements[Len(parser'.statements)]

\* a turn of parse that starts at a token of type `first` followed by `=`
\* and pushes a statement
AssignmentTurn(first) ==
    /\ pc = "parse" /\ parser' # parser
    /\ Len(parser'.statements) = Len(parser.statements) + 1
    /\ parser.current + 2 <= Len(parser.tokens)
    /\ parser.tokens[parser.current + 1].type = first
    /\ parser.tokens[parser.current + 2].type = "EQUAL"

InvalidTarget(equals) == [message |-> "Invalid assignment target.", token |-> equals]

\* C23: an `=` after a variable yields an Assign node, after a property
\* access a Set node.  After any other left side "Invalid assignment
\* target." is reported at the `=` (hadError is set) and nothing is thrown:
\* a turn of parse that reports nothing else pushes its statement, which
\* ends where the grammar ends it, and the statements that follow are
\* parsed.
C23_InvalidAssignmentTarget ==
    /\ [][AssignmentTurn("IDENTIFIER") /\ Reported(parser, parser') = <<>>
            => /\ Pushed.k = "ExpressionStmt"
               /\ Pushed.expression.k = "Assign"
               /\ Pushed.expression.id = parser.current + 2
               /\ Pushed.expression.name = Lexeme(parser.tokens[parser.current + 1])]_vars
    /\ [][AssignmentTurn("NUMBER")
            => /\ Reported(parser, parser')[1] = InvalidTarget(parser.current + 2)
               /\ hadError'
               /\ Pushed.k = "ExpressionStmt" /\ Pushed.expression.k = "Literal"]_vars
    /\ [][(/\ pc = "parse" /\ Reported(parser, parser') # <<>>
           /\ \A i \in 1..Len(Reported(parser, parser')) :
                 /\ Reported(parser, parser')[i].message = "Invalid assignment target."
                 /\ parser.tokens[Reported(parser, parser')[i].token].type = "EQUAL")
            => /\ Len(parser'.statements) = Len(parser.statements) + 1
               /\ parser.tokens[parser'.current].type = "SEMICOLON"
               /\ hadError']_vars
    /\ [](pc = "parsed" /\ lexer.source = TextInvalidTarget
            => /\ statements = << ExpressionStmt(LiteralExpr(Num(1))),
                                  EchoStmt(LiteralExpr(Num(3))) >>
               /\ parser.errors = << InvalidTarget(2) >>)
    /\ [](pc = "parsed" /\ lexer.source = TextAssignments
            => /\ statements =
                    << ExpressionStmt(SetExpr(VariableExpr(1, "a"), "b", VariableExpr(5, "c"))),
                       ExpressionStmt(AssignExpr(8, "x", LiteralExpr(Num(1)))) >>
               /\ parser.errors = <<>>)

C23_Witness ==
    /\ pc = "parsed" /\ lexer.source = TextInvalidTarget
    /\ Len(statements) = 2 /\ hadError
    /\ reports = << "Invalid assignment target." >>

\* C24: the conditional operator is right-associative, binds tighter than
\* `and` and `or` and looser than equality, and its else branch is a
\* conditional: `a ? b : c ? d : e` is parsed as `a ? b : (c ? d : e)` and
\* `a ? b : c and d` as `(a ? b : c) and d`.
C24_TernaryGrouping ==
    /\ (pc = "parsed" /\ lexer.source = TextTernaryChain)
         => statements =
              << ExpressionStmt(
                   ConditionalExpr(VariableExpr(1, "a"), VariableExpr(3, "b"),
                       ConditionalExpr(VariableExpr(5, "c"), VariableExpr(7, "d"),
                                       VariableExpr(9, "e")))) >>
    /\ (pc = "parsed" /\ lexer.source = TextTernaryAnd)
         => statements =
              << ExpressionStmt(
                   LogicalExpr(ConditionalExpr(VariableExpr(1, "a"), VariableExpr(3, "b"),
                                               VariableExpr(5, "c")),
                               "and", VariableExpr(7, "d"))) >>

-----------------------------------------------------------------------------
(* The lexer (LexerSpec).                                                  *)

\* C27: every turn of the loop of lex consumes at least one character and
\* never reads past the end, so lex terminates; the tokens hold no EOF while
\* the loop runs and exactly one, as the last token, once lex has returned.
\* A turn that prints "Unexpected character: ..." or "Unterminated string"
\* pushes no token, and an unterminated string ends the source.
C27_LexerTerminates ==
    /\ [][(pc = "lex" /\ pc' = "lex")
            => /\ lexer'.cursor > lexer.cursor
               /\ lexer'.cursor <= Len(lexer.source)
               /\ console' # console => lexer'.tokens = lexer.tokens
               /\ (console' # console /\ console'[Len(console')] = "Unterminated string")
                     => lexer'.cursor = Len(lexer.source)]_vars
    /\ [](pc = "lex" => \A i \in 1..Len(lexer.tokens) : lexer.tokens[i].type # "EOF")
    /\ [](pc = "lexed"
            => /\ lexer.tokens # <<>>
               /\ \A i \in 1..Len(lexer.tokens) :
                     lexer.tokens[i].type = "EOF" <=> i = Len(lexer.tokens))

C27_Witness ==
    /\ pc = "lexed" /\ lexer.source = TextUnterminatedString
    /\ console = << "Unterminated string" >>
    /\ [i \in 1..Len(lexer.tokens) |-> lexer.tokens[i].type]
         = << "ECHO", "NUMBER", "SEMICOLON", "EOF" >>

(* Evaluation order. *)

OperandErrors ==
    {"Operands must be numbers.", "Operands must be two numbers or two strings",
     "Division by zero is not allowed."}

\* C25: evaluation is strictly left to right.  A binary expression evaluates
\* its left operand, then its right operand whatever the left one yielded,
\* and raises an operand error only once both have a value; a call evaluates
\* its callee, then its arguments in their order, and invokes only when all
\* have a value; `o.f = v` evaluates `o` first and evaluates `v` only when
\* `o` yielded an instance, otherwise it throws with `v` never evaluated.
C25_LeftToRight ==
    /\ [][AtExpr("Binary") => ctrl' = Eval(ctrl.node.left)]_vars
    /\ [][(Resume("Binary") /\ Top.phase = "left") => ctrl' = Eval(Top.expr.right)]_vars
    /\ [][(Running /\ ctrl.m # "throw" /\ ctrl'.m = "throw"
           /\ ctrl'.error.k = "RuntimeError" /\ ctrl'.error.message \in OperandErrors)
          => (Resume("Binary") /\ Top.phase = "right")]_vars
    /\ [][AtExpr("Call") => ctrl' = Eval(ctrl.node.callee)]_vars
    /\ [][Resume("Call") =>
            LET seen == IF Top.phase = "callee" THEN 0 ELSE Len(Top.args) + 1
            IN  IF seen < Len(Top.expr.args)
                THEN ctrl' = Eval(Top.expr.args[seen + 1])
                ELSE ctrl'.m = "invoke" /\ Len(kont'[Len(kont')].args) = Len(Top.expr.args)]_vars
    /\ [][AtExpr("Set") => ctrl' = Eval(ctrl.node.object)]_vars
    /\ [][(Resume("Set") /\ Top.phase = "object") =>
            IF ctrl.v.t = "instance" THEN ctrl' = Eval(Top.expr.value)
            ELSE /\ ctrl' = Throw(RuntimeError("Only instances have fields."))
                 /\ kont' = Rest]_vars
    /\ [](Exited("evaluation-order") =>
            /\ output = <<"1", "2", "3", "callee", "3", "4", "7", "object", "5", "5", "a", "6">>
            /\ diagnostics = <<"Operands must be numbers.">>)
    /\ [](Exited("set-on-number") =>
            /\ output = <<"1">>
            /\ diagnostics = <<"Only instances have fields.">>)

C25_Witness ==
    /\ Exited("evaluation-order")
    /\ Len(output) = 12 /\ output[11] = "a" /\ output[12] = "6"
    /\ exitCode = 70

(* Return. *)

ReturnSignal == Running /\ ctrl.m = "throw" /\ ctrl.error.k = "Return"

\* C26: a `return` ends the innermost active call at once, from any depth
\* of blocks and loops.  While the Return signal travels, every step pops
\* exactly one frame and prints nothing; the first LoxFunction.call frame it
\* meets turns it into the value of the call expression (the returned value,
\* nil for a bare return; the instance for an initializer) and the frames
\* below stay.  A Return signal always has a call frame below it, so none
\* reaches the top-level interpret loop of a program the resolver accepted.
C26_ReturnEndsInnermostCall ==
    /\ [](ReturnSignal => \E i \in 1..Len(kont) : kont[i].f = "LoxFunction.call")
    /\ [][(AtStmt("Return") /\ ctrl.node.value.k = "None") => ctrl' = Throw(Return(Nil))]_vars
    /\ [][(Resume("Return")) => (ctrl' = Throw(Return(ctrl.v)) /\ kont' = Rest)]_vars
    /\ [][ReturnSignal =>
            /\ kont' = Rest
            /\ output' = output
            /\ ip' = ip
            /\ IF Top.f # "LoxFunction.call" THEN ctrl' = ctrl
               ELSE IF functions[Top.fn].isInitializer
               THEN ctrl'.m = "value" /\ ctrl'.v.t = "instance"
               ELSE ctrl' = Value(ctrl.error.value)]_vars
    /\ [](Exited("return-nested") =>
            /\ output = <<"1", "next", "2", "outer", "2", "nil">>
            /\ diagnostics = <<>>
            /\ exitCode = 0)

C26_Witness ==
    /\ Exited("return-nested")
    /\ output[3] = "2" /\ output[4] = "outer" /\ output[Len(output)] = "nil"

(* Inheritance chains. *)

\* C28: method lookup terminates.  The superclass of a class value is a
\* class value built before it, so every superclass chain is finite and
\* acyclic, and the lookup of a method no class has ends with null from
\* every class; the superclass of a class value never changes, also when
\* its name is declared again (class A {} class B < A {} class A < B {}).
C28_LookupTerminates ==
    /\ [](\A c \in 1..Len(classes) :
            /\ classes[c].superclass \in 0..(c - 1)
            /\ findMethod(classes, c, "nope") = 0)
    /\ [][/\ Len(classes') >= Len(classes)
          /\ \A c \in 1..Len(classes) : classes'[c].superclass = classes[c].superclass]_vars
    /\ [](Exited("class-redeclared") =>
            /\ Len(classes) = 3
            /\ classes[3].name = "A" /\ classes[3].superclass = 2
            /\ classes[2].name = "B" /\ classes[2].superclass = 1
            /\ classes[1].name = "A" /\ classes[1].superclass = 0
            /\ output = <<"A.n", "A.m", "A.m">>
            /\ diagnostics = <<"'A' has no property 'nope'.">>)

C28_Witness ==
    /\ Exited("class-redeclared")
    /\ Len(classes) = 3 /\ classes[3].superclass = 2
    /\ Len(output) = 3 /\ hadRuntimeError

(* Static scoping. *)

\* C29: static scoping is stable.  While a program is interpreted the
\* resolved distance of a reference, the closure of a function and the
\* enclosing link of an environment never change, and a resolved reference
\* reads the variable of the environment at its distance, not a same-named
\* one declared later in a nearer scope: in
\* { fn show() { echo a; } show(); let a = 2; show(); } both calls print the
\* outer `a`, be it a global or a local of an enclosing block, and an
\* assignment in a function writes that same outer variable.
C29_StaticScopeStable ==
    /\ [][Running =>
            /\ locals' = locals
            /\ \A f \in 1..Len(functions) : functions'[f].closure = functions[f].closure
            /\ \A e \in 1..Len(envs) : envs'[e].enclosing = envs[e].enclosing]_vars
    /\ [][(AtExpr("Variable") /\ ctrl.node.id \in DOMAIN locals) =>
            LET holder == Ancestor(envs, environment, locals[ctrl.node.id])
            IN  (holder # 0 /\ ctrl.node.name \in DOMAIN envs[holder].values)
                    => ctrl' = Value(envs[holder].values[ctrl.node.name])]_vars
    /\ [](Exited("static-scope") =>
            /\ output = <<"outer", "outer", "changed", "inner", "changed",
                          "global", "global", "2", "global">>
            /\ diagnostics = <<>>)

C29_Witness ==
    /\ Exited("static-scope")
    /\ Len(output) = 9 /\ output[2] = "outer" /\ output[7] = "global"
    /\ exitCode = 0

(* The traversal of the resolver. *)

Balanced(rs) == rs.scopes = <<>> /\ rs.currentFunction = "NONE" /\ rs.currentClass = "NONE"

\* C30: the traversal of the resolver is balanced.  For the statement list
\* of every run, with or without resolver errors: when resolve returns, the
\* scope stack is empty and currentFunction and currentClass are NONE; the
\* same holds before each top-level statement, so that a top-level
\* declaration is entered in no scope (declare and define leave the
\* resolver as it is); and the same list resolved inside one open scope
\* leaves exactly that scope, every scope pushed in between being popped
\* once.
C30_ResolverBalanced ==
    (pc \in {"resolve", "enter", "returned"} /\ statements # <<>>) =>
        /\ Balanced(resolve(locals, statements))
        /\ \A i \in 1..Len(statements) :
              LET before == resolve(locals, SubSeq(statements, 1, i - 1))
              IN  /\ Balanced(before)
                  /\ statements[i].k \in {"Let", "FunctionStmt", "Class"} =>
                        define(declare(before, statements[i].name), statements[i].name) = before
        /\ Len(resolveAll(beginScope(NewResolver(locals)), statements).scopes) = 1

C30_Witness ==
    /\ pc = "returned" /\ runKind = "file" /\ src = SourceNamed("class-context-rejected")
    /\ hadError
    /\ Len(resolve(locals, statements).errors) = 5
    /\ Balanced(resolve(locals, statements))
=============================================================================
